---- MODULE Spec2Model ----
(***************************************************************************)
(* Model of the clinical-case chat application (core/chat):                *)
(*   - services.py     instruction resolution and prompt rendering         *)
(*   - views/utils.py  external model call with fallback, stage replies    *)
(*   - views/chat_views.py, views/history_views.py  session-backed flow    *)
(*   - models.py       Case, Instruction, CaseHistory                      *)
(***************************************************************************)
EXTENDS Integers, Sequences, FiniteSets, TLC

VARIABLES
    instructions,   \* Instruction.objects: sequence of rows, pk = position
    resolved,       \* outcome of the last resolve_instruction call on this snapshot
    reply,          \* the last _bot_reply_stage_db call on this snapshot
    session,        \* request.session of the browser: a dict
    user,           \* request.user: None for AnonymousUser
    histories,      \* CaseHistory.objects: sequence of rows, pk = position
    response,       \* the response to the last request
    cases,          \* Case.objects as the operator edits it: rows, pk = position
    instance        \* the Case instance in memory: its pk (0: not saved) and attributes

\* the tables and calls of the instruction layer
dbvars == <<instructions, resolved, reply>>

\* the state of the conversational flow
flowvars == <<session, user, histories, response>>

\* the Case table under edit
casevars == <<cases, instance>>

vars ==
    <<instructions, resolved, reply, session, user, histories, response, cases, instance>>

(***************************************************************************)
(* Bounds of the model.                                                    *)
(***************************************************************************)
\* most Instruction rows ever created
MaxInst == 2
\* Instruction.version ranges over 1..MaxVersion
MaxVersion == 2
\* the clock runs over 0..MaxTime
MaxTime == 1

(***************************************************************************)
(* Domain values.                                                          *)
(***************************************************************************)
\* Python's None (a null foreign key, an absent result)
None == "None"

\* slugs of the Case rows of the catalogue
Cases == {"case-a", "case-b"}

\* Instruction.STAGE_CHOICES (keys)
STAGE_CHOICES == <<"diagnostics", "first_exam", "meds", "reco", "dispo">>

\* the cases the administrator scopes instructions to (the other case of
\* the catalogue has none of its own)
InstCases == {"case-a"}

\* the stages the administrator's inputs are drawn from
InstStages == {"diagnostics"}

\* the stages resolve_instruction is called with
QueryStages == {"diagnostics", "meds"}

Range(s) == {s[i] : i \in 1..Len(s)}

\* Python's `x or ""` on a text field
OrEmpty(x) == IF x = None THEN "" ELSE x

\* a Python dict is a function on its keys: {}, d.get(k, default), d[k] = v
EmptyDict == [k \in {} |-> None]
Get(d, k, default) == IF k \in DOMAIN d THEN d[k] ELSE default
Put(d, k, v) == [x \in DOMAIN d \cup {k} |-> IF x = k THEN v ELSE d[x]]

\* sys.getrecursionlimit() of CPython, under which json.loads runs
RecursionLimit == 1000

\* Case.slug: max_length, and the length save() cuts the slug to
SlugMaxLength == 120

(***************************************************************************)
(* Texts.  A Python str is named by an ASCII handle; TEXT gives its         *)
(* characters (a non-ASCII character is written by its code point).        *)
(***************************************************************************)
TEXT ==
   "Blad uwierzytelnienia z OpenAI. Sprawdz OPENAI_API_KEY w .env i uprawnienia do modelu w konsoli OpenAI." :>
      <<"B", "U+0142", "U+0105", "d", " ", "u", "w", "i", "e", "r", "z",
        "y", "t", "e", "l", "n", "i", "e", "n", "i", "a", " ", "z", " ",
        "O", "p", "e", "n", "A", "I", ".", " ", "S", "p", "r", "a", "w",
        "d", "U+017A", " ", "U+0060", "O", "P", "E", "N", "A", "I", "_",
        "A", "P", "I", "_", "K", "E", "Y", "U+0060", " ", "w", " ", ".",
        "e", "n", "v", " ", "i", " ", "u", "p", "r", "a", "w", "n", "i",
        "e", "n", "i", "a", " ", "d", "o", " ", "m", "o", "d", "e", "l",
        "u", " ", "w", " ", "k", "o", "n", "s", "o", "l", "i", " ", "O",
        "p", "e", "n", "A", "I", ".">> @@
   "Blad uslugi OpenAI. Sprobuj ponownie za chwile." :>
      <<"B", "U+0142", "U+0105", "d", " ", "u", "s", "U+0142", "u", "g",
        "i", " ", "O", "p", "e", "n", "A", "I", ".", " ", "S", "p", "r",
        "U+00F3", "b", "u", "j", " ", "p", "o", "n", "o", "w", "n", "i",
        "e", " ", "z", "a", " ", "c", "h", "w", "i", "l", "U+0119", ".">> @@
   "Konfiguracja: " :>
      <<"K", "o", "n", "f", "i", "g", "u", "r", "a", "c", "j", "a", ":", " ">> @@
   "Brak OPENAI_API_KEY w konfiguracji serwera." :>
      <<"B", "r", "a", "k", " ", "O", "P", "E", "N", "A", "I", "_", "A",
        "P", "I", "_", "K", "E", "Y", " ", "w", " ", "k", "o", "n", "f",
        "i", "g", "u", "r", "a", "c", "j", "i", " ", "s", "e", "r", "w",
        "e", "r", "a", ".">> @@
   "Konfiguracja: Brak OPENAI_API_KEY w konfiguracji serwera." :>
      <<"K", "o", "n", "f", "i", "g", "u", "r", "a", "c", "j", "a", ":",
        " ", "B", "r", "a", "k", " ", "O", "P", "E", "N", "A", "I", "_",
        "A", "P", "I", "_", "K", "E", "Y", " ", "w", " ", "k", "o", "n",
        "f", "i", "g", "u", "r", "a", "c", "j", "i", " ", "s", "e", "r",
        "w", "e", "r", "a", ".">> @@
   "Wewnetrzny blad bota. Sprobuj ponownie." :>
      <<"W", "e", "w", "n", "U+0119", "t", "r", "z", "n", "y", " ", "b",
        "U+0142", "U+0105", "d", " ", "b", "o", "t", "a", ".", " ", "S",
        "p", "r", "U+00F3", "b", "u", "j", " ", "p", "o", "n", "o", "w",
        "n", "i", "e", ".">> @@
   "Brak aktywnej instrukcji dla etapu." :>
      <<"B", "r", "a", "k", " ", "a", "k", "t", "y", "w", "n", "e", "j",
        " ", "i", "n", "s", "t", "r", "u", "k", "c", "j", "i", " ", "d",
        "l", "a", " ", "e", "t", "a", "p", "u", ".">> @@
   "not found" :>
      <<"n", "o", "t", " ", "f", "o", "u", "n", "d">> @@
   "unsupported" :>
      <<"u", "n", "s", "u", "p", "p", "o", "r", "t", "e", "d">> @@
   "permission" :>
      <<"p", "e", "r", "m", "i", "s", "s", "i", "o", "n">> @@
   "does not exist" :>
      <<"d", "o", "e", "s", " ", "n", "o", "t", " ", "e", "x", "i", "s", "t">> @@
   "unknown model" :>
      <<"u", "n", "k", "n", "o", "w", "n", " ", "m", "o", "d", "e", "l">> @@
   "zaliczam" :>
      <<"z", "a", "l", "i", "c", "z", "a", "m">> @@
   "Error code: 404 - Not Found" :>
      <<"E", "r", "r", "o", "r", " ", "c", "o", "d", "e", ":", " ", "4",
        "0", "4", " ", "-", " ", "N", "o", "t", " ", "F", "o", "u", "n", "d">> @@
   "You have insufficient permissions for this operation." :>
      <<"Y", "o", "u", " ", "h", "a", "v", "e", " ", "i", "n", "s", "u",
        "f", "f", "i", "c", "i", "e", "n", "t", " ", "p", "e", "r", "m",
        "i", "s", "s", "i", "o", "n", "s", " ", "f", "o", "r", " ", "t",
        "h", "i", "s", " ", "o", "p", "e", "r", "a", "t", "i", "o", "n", ".">> @@
   "Rate limit reached" :>
      <<"R", "a", "t", "e", " ", "l", "i", "m", "i", "t", " ", "r", "e",
        "a", "c", "h", "e", "d">> @@
   "Incorrect API key provided" :>
      <<"I", "n", "c", "o", "r", "r", "e", "c", "t", " ", "A", "P", "I",
        " ", "k", "e", "y", " ", "p", "r", "o", "v", "i", "d", "e", "d">> @@
   "OpenAI object has no attribute responses" :>
      <<"O", "p", "e", "n", "A", "I", " ", "o", "b", "j", "e", "c", "t",
        " ", "h", "a", "s", " ", "n", "o", " ", "a", "t", "t", "r", "i",
        "b", "u", "t", "e", " ", "r", "e", "s", "p", "o", "n", "s", "e", "s">> @@
   "Pacjent - ZALICZAM etap." :>
      <<"P", "a", "c", "j", "e", "n", "t", " ", "U+2013", " ", "Z", "A",
        "L", "I", "C", "Z", "A", "M", " ", "e", "t", "a", "p", ".">> @@
   "Prosze doprecyzowac." :>
      <<"P", "r", "o", "s", "z", "U+0119", " ", "d", "o", "p", "r", "e",
        "c", "y", "z", "o", "w", "a", "U+0107", ".">> @@
   "" :>
      <<>> @@
   "pacjent ma objawy" :>
      <<"p", "a", "c", "j", "e", "n", "t", " ", "m", "a", " ", "o", "b",
        "j", "a", "w", "y">> @@
   "kolejne pytanie" :>
      <<"k", "o", "l", "e", "j", "n", "e", " ", "p", "y", "t", "a", "n",
        "i", "e">> @@
   "Diagnozuj: " :>
      <<"D", "i", "a", "g", "n", "o", "z", "u", "j", ":", " ">> @@
   "\n" :>
      <<"U+000A">> @@
   "EKG, troponiny" :>
      <<"E", "K", "G", ",", " ", "t", "r", "o", "p", "o", "n", "i", "n", "y">> @@
   "STEMI" :>
      <<"S", "T", "E", "M", "I">> @@
   "Podaj ASA" :>
      <<"P", "o", "d", "a", "j", " ", "A", "S", "A">> @@
   "Kontrola za 7 dni" :>
      <<"K", "o", "n", "t", "r", "o", "l", "a", " ", "z", "a", " ", "7",
        " ", "d", "n", "i">> @@
   "Oddzial kardiologii" :>
      <<"O", "d", "d", "z", "i", "a", "l", " ", "k", "a", "r", "d", "i",
        "o", "l", "o", "g", "i", "i">> @@
   "Diagnostyka" :>
      <<"D", "i", "a", "g", "n", "o", "s", "t", "y", "k", "a">> @@
   "Rozpoznanie wstepne" :>
      <<"R", "o", "z", "p", "o", "z", "n", "a", "n", "i", "e", " ", "w",
        "s", "t", "U+0119", "p", "n", "e">> @@
   "Leczenie ostre" :>
      <<"L", "e", "c", "z", "e", "n", "i", "e", " ", "o", "s", "t", "r", "e">> @@
   "Zalecenia po leczeniu" :>
      <<"Z", "a", "l", "e", "c", "e", "n", "i", "a", " ", "p", "o", " ",
        "l", "e", "c", "z", "e", "n", "i", "u">> @@
   "Skierowanie / Dispo" :>
      <<"S", "k", "i", "e", "r", "o", "w", "a", "n", "i", "e", " ", "/",
        " ", "D", "i", "s", "p", "o">> @@
   "Podsumowanie" :>
      <<"P", "o", "d", "s", "u", "m", "o", "w", "a", "n", "i", "e">> @@
   "## " :>
      <<"#", "#", " ">> @@
   ": " :>
      <<":", " ">> @@
   "\n\n" :>
      <<"U+000A", "U+000A">> @@
   "user" :>
      <<"u", "s", "e", "r">> @@
   "assistant" :>
      <<"a", "s", "s", "i", "s", "t", "a", "n", "t">> @@
   " pacjent ma objawy " :>
      <<" ", "p", "a", "c", "j", "e", "n", "t", " ", "m", "a", " ", "o",
        "b", "j", "a", "w", "y", " ">> @@
   "  " :>
      <<" ", " ">> @@
   "{\"score\": 80, \"verdict\": \"OK\", \"summary\": \"Testowe podsumowanie\"}" :>
      <<"{", "\"", "s", "c", "o", "r", "e", "\"", ":", " ", "8", "0", ",",
        " ", "\"", "v", "e", "r", "d", "i", "c", "t", "\"", ":", " ", "\"",
        "O", "K", "\"", ",", " ", "\"", "s", "u", "m", "m", "a", "r", "y",
        "\"", ":", " ", "\"", "T", "e", "s", "t", "o", "w", "e", " ", "p",
        "o", "d", "s", "u", "m", "o", "w", "a", "n", "i", "e", "\"", "}">> @@
   "~~~json\n{\"score\": 80, \"verdict\": \"OK\", \"summary\": \"Testowe podsumowanie\"}\n~~~" :>
      <<"U+0060", "U+0060", "U+0060", "j", "s", "o", "n", "U+000A", "{",
        "\"", "s", "c", "o", "r", "e", "\"", ":", " ", "8", "0", ",", " ",
        "\"", "v", "e", "r", "d", "i", "c", "t", "\"", ":", " ", "\"", "O",
        "K", "\"", ",", " ", "\"", "s", "u", "m", "m", "a", "r", "y", "\"",
        ":", " ", "\"", "T", "e", "s", "t", "o", "w", "e", " ", "p", "o",
        "d", "s", "u", "m", "o", "w", "a", "n", "i", "e", "\"", "}",
        "U+000A", "U+0060", "U+0060", "U+0060">> @@
   "[\"OK\"]" :>
      <<"[", "\"", "O", "K", "\"", "]">> @@
   "Nie potrafie ocenic." :>
      <<"N", "i", "e", " ", "p", "o", "t", "r", "a", "f", "i", "U+0119",
        " ", "o", "c", "e", "n", "i", "U+0107", ".">> @@
   "OK" :>
      <<"O", "K">> @@
   "Testowe podsumowanie" :>
      <<"T", "e", "s", "t", "o", "w", "e", " ", "p", "o", "d", "s", "u",
        "m", "o", "w", "a", "n", "i", "e">> @@
   "Blad uwierzytelnienia z OpenAI. Sprawdz OPENAI_API_KEY i dostep do modelu." :>
      <<"B", "U+0142", "U+0105", "d", " ", "u", "w", "i", "e", "r", "z",
        "y", "t", "e", "l", "n", "i", "e", "n", "i", "a", " ", "z", " ",
        "O", "p", "e", "n", "A", "I", ".", " ", "S", "p", "r", "a", "w",
        "d", "U+017A", " ", "U+0060", "O", "P", "E", "N", "A", "I", "_",
        "A", "P", "I", "_", "K", "E", "Y", "U+0060", " ", "i", " ", "d",
        "o", "s", "t", "U+0119", "p", " ", "d", "o", " ", "m", "o", "d",
        "e", "l", "u", ".">> @@
   "Blad uslugi OpenAI. Sprobuj ponownie pozniej." :>
      <<"B", "U+0142", "U+0105", "d", " ", "u", "s", "U+0142", "u", "g",
        "i", " ", "O", "p", "e", "n", "A", "I", ".", " ", "S", "p", "r",
        "U+00F3", "b", "u", "j", " ", "p", "o", "n", "o", "w", "n", "i",
        "e", " ", "p", "U+00F3", "U+017A", "n", "i", "e", "j", ".">> @@
   "Wewnetrzny blad podczas generowania podsumowania." :>
      <<"W", "e", "w", "n", "U+0119", "t", "r", "z", "n", "y", " ", "b",
        "U+0142", "U+0105", "d", " ", "p", "o", "d", "c", "z", "a", "s",
        " ", "g", "e", "n", "e", "r", "o", "w", "a", "n", "i", "a", " ",
        "p", "o", "d", "s", "u", "m", "o", "w", "a", "n", "i", "a", ".">> @@
   "Nie udalo sie zinterpretowac odpowiedzi modelu." :>
      <<"N", "i", "e", " ", "u", "d", "a", "U+0142", "o", " ", "s", "i",
        "U+0119", " ", "z", "i", "n", "t", "e", "r", "p", "r", "e", "t",
        "o", "w", "a", "U+0107", " ", "o", "d", "p", "o", "w", "i", "e",
        "d", "z", "i", " ", "m", "o", "d", "e", "l", "u", ".">> @@
   "Brak historii rozmowy." :>
      <<"B", "r", "a", "k", " ", "h", "i", "s", "t", "o", "r", "i", "i",
        " ", "r", "o", "z", "m", "o", "w", "y", ".">> @@
   "\nU: " :>
      <<"U+000A", "U", ":", " ">> @@
   "\nB: " :>
      <<"U+000A", "B", ":", " ">> @@
   "\nMSG: " :>
      <<"U+000A", "M", "S", "G", ":", " ">> @@
   "{prelim_dx}" :>
      <<"{", "p", "r", "e", "l", "i", "m", "_", "d", "x", "}">> @@
   "ZALICZAM" :>
      <<"Z", "A", "L", "I", "C", "Z", "U+0104", "M">> @@
   "Nie zaliczasz." :>
      <<"N", "i", "e", " ", "z", "a", "l", "i", "c", "z", "a", "s", "z", ".">> @@
   "Test case" :>
      <<"T", "e", "s", "t", " ", "c", "a", "s", "e">> @@
   "Test Case" :>
      <<"T", "e", "s", "t", " ", "C", "a", "s", "e">> @@
   "Bol glowy!" :>
      <<"B", "U+00F3", "l", " ", "g", "U+0142", "o", "w", "y", "!">> @@
   "test-case" :>
      <<"t", "e", "s", "t", "-", "c", "a", "s", "e">> @@
   "bol-gowy" :>
      <<"b", "o", "l", "-", "g", "o", "w", "y">> @@
   "inny-slug" :>
      <<"i", "n", "n", "y", "-", "s", "l", "u", "g">> @@
   "a * 121" :>
      [i \in 1..(SlugMaxLength + 1) |-> "a"] @@
   "a * 120" :>
      [i \in 1..SlugMaxLength |-> "a"] @@
   "~~~\n" :>
      <<"U+0060", "U+0060", "U+0060", "U+000A">> @@
   "~~~json\n" :>
      <<"U+0060", "U+0060", "U+0060", "j", "s", "o", "n", "U+000A">> @@
   "~~~JSON\n" :>
      <<"U+0060", "U+0060", "U+0060", "J", "S", "O", "N", "U+000A">> @@
   "~~~json5\n" :>
      <<"U+0060", "U+0060", "U+0060", "j", "s", "o", "n", "5", "U+000A">> @@
   "~~~json\r\n" :>
      <<"U+0060", "U+0060", "U+0060", "j", "s", "o", "n", "U+000D", "U+000A">> @@
   " \n~~~json\n  " :>
      <<" ", "U+000A", "U+0060", "U+0060", "U+0060", "j", "s", "o", "n",
        "U+000A", " ", " ">> @@
   "\n~~~" :>
      <<"U+000A", "U+0060", "U+0060", "U+0060">> @@
   "~~~" :>
      <<"U+0060", "U+0060", "U+0060">> @@
   "\r\n~~~" :>
      <<"U+000D", "U+000A", "U+0060", "U+0060", "U+0060">> @@
   "  \n~~~\n " :>
      <<" ", " ", "U+000A", "U+0060", "U+0060", "U+0060", "U+000A", " ">> @@
   " \n" :>
      <<" ", "U+000A">> @@
   "\n " :>
      <<"U+000A", " ">> @@
   "~~~json" :>
      <<"U+0060", "U+0060", "U+0060", "j", "s", "o", "n">> @@
   "{\"verdict\": \"~~~json\"}" :>
      <<"{", "\"", "v", "e", "r", "d", "i", "c", "t", "\"", ":", " ", "\"",
        "U+0060", "U+0060", "U+0060", "j", "s", "o", "n", "\"", "}">> @@
   "[ * 1000" :>
      [i \in 1..RecursionLimit |-> "["]

\* the characters of a str
CharsOf(text) == TEXT[text]

\* the handle of every str, by its characters
HANDLE ==
    [chars \in {TEXT[text] : text \in DOMAIN TEXT} |->
        CHOOSE text \in DOMAIN TEXT : TEXT[text] = chars]

\* the str with the given characters
TextOf(chars) == HANDLE[chars]

\* str.lower() on one character: ASCII and the Polish capitals
LOWER ==
   "A" :> "a" @@ "B" :> "b" @@ "C" :> "c" @@ "D" :> "d" @@ "E" :> "e" @@
   "F" :> "f" @@ "G" :> "g" @@ "H" :> "h" @@ "I" :> "i" @@ "J" :> "j" @@
   "K" :> "k" @@ "L" :> "l" @@ "M" :> "m" @@ "N" :> "n" @@ "O" :> "o" @@
   "P" :> "p" @@ "Q" :> "q" @@ "R" :> "r" @@ "S" :> "s" @@ "T" :> "t" @@
   "U" :> "u" @@ "V" :> "v" @@ "W" :> "w" @@ "X" :> "x" @@ "Y" :> "y" @@
   "Z" :> "z" @@
   "U+0104" :> "U+0105" @@ "U+0106" :> "U+0107" @@ "U+0118" :> "U+0119" @@
   "U+0141" :> "U+0142" @@ "U+0143" :> "U+0144" @@ "U+00D3" :> "U+00F3" @@
   "U+015A" :> "U+015B" @@ "U+0179" :> "U+017A" @@ "U+017B" :> "U+017C"

\* str.lower() on a sequence of characters
lower(chars) ==
    [i \in 1..Len(chars) |-> IF chars[i] \in DOMAIN LOWER THEN LOWER[chars[i]] ELSE chars[i]]

\* variant: no lower-casing
lower_identity(chars) == chars

\* Python's `needle in hay` on sequences of characters
Contains(hay, needle) ==
    \E i \in 0..(Len(hay) - Len(needle)) : SubSeq(hay, i + 1, i + Len(needle)) = needle

(***************************************************************************)
(* Outcomes of a Python call: a returned value or a raised exception.      *)
(***************************************************************************)
Return(value) == [exc |-> None, value |-> value]
Raise(cls, msg) == [exc |-> cls, value |-> msg]

\* the classes an exception class derives from (itself included):
\* openai.AuthenticationError and openai.APIError are OpenAIError
BASES ==
   "AuthenticationError" :> {"AuthenticationError", "APIError", "OpenAIError", "Exception"} @@
   "APIError" :> {"APIError", "OpenAIError", "Exception"} @@
   "RuntimeError" :> {"RuntimeError", "Exception"} @@
   "Http404" :> {"Http404", "Exception"} @@
   "KeyError" :> {"KeyError", "Exception"} @@
   "AttributeError" :> {"AttributeError", "Exception"} @@
   "JSONDecodeError" :> {"JSONDecodeError", "ValueError", "Exception"} @@
   "RecursionError" :> {"RecursionError", "RuntimeError", "Exception"}

\* `except base:` catches an exception of class cls
Catches(base, cls) == base \in BASES[cls]

(***************************************************************************)
(* models.py: Instruction rows.                                            *)
(***************************************************************************)
Instruction(case, stage, body, active, version, updated_at) ==
    [case |-> case, stage |-> stage, body |-> body, active |-> active,
     version |-> version, updated_at |-> updated_at]

\* a template body is a sequence of literal texts and replacement fields
Lit(text) == [field |-> FALSE, s |-> text]
Field(name) == [field |-> TRUE, s |-> name]

\* "Diagnozuj: {case_norm}"
BODY_DIAGNOSE == <<Lit("Diagnozuj: "), Field("case_norm")>>

\* "{case_norm}\n{prelim_dx}\nU: {user_answers}\nB: {bot_answers}\nMSG: {actual_msg}"
BODY_ALL_FIELDS ==
    <<Field("case_norm"), Lit("\n"), Field("prelim_dx"), Lit("\nU: "),
      Field("user_answers"), Lit("\nB: "), Field("bot_answers"), Lit("\nMSG: "),
      Field("actual_msg")>>

\* "Diagnozuj: {case_name}": a field render_instruction_body does not pass
BODY_UNKNOWN_FIELD == <<Lit("Diagnozuj: "), Field("case_name")>>

(***************************************************************************)
(* models.py: the Case rows of the catalogue, by slug.                     *)
(***************************************************************************)
CASES ==
   "case-a" :> [name |-> "Case A", content |-> "Opis przypadku",
                diagnostics_norm |-> "EKG, troponiny", prelim_dx_raw |-> "STEMI",
                meds_norm |-> "Podaj ASA", reco_norm |-> "Kontrola za 7 dni",
                dispo_norm |-> "Oddzial kardiologii"] @@
   "case-b" :> [name |-> "Case B", content |-> "",
                diagnostics_norm |-> "", prelim_dx_raw |-> "",
                meds_norm |-> "", reco_norm |-> "", dispo_norm |-> ""]

\* pks of the rows in the table
InstructionPks == 1..Len(instructions)

\* the absent result of Optional[Instruction] (no row has pk 0)
NoInstruction == 0

(***************************************************************************)
(* services.py: resolve_instruction.                                       *)
(***************************************************************************)
\* variant: the filter without active=True
FilterInstructions_any_active(case, stage) ==
    {pk \in InstructionPks :
        /\ instructions[pk].case = case
        /\ instructions[pk].stage = stage}

\* variant: the filter without stage=stage
FilterInstructions_any_stage(case, stage) ==
    {pk \in InstructionPks :
        /\ instructions[pk].case = case
        /\ instructions[pk].active}

\* .filter(case=case, stage=stage, active=True); case = None is case__isnull=True
FilterInstructions(case, stage) ==
    {pk \in InstructionPks :
        /\ instructions[pk].case = case
        /\ instructions[pk].stage = stage
        /\ instructions[pk].active}

\* variant: .order_by("-version", "updated_at"), oldest first among equals
OrderedBefore_oldest_first(a, b) ==
    \/ instructions[a].version > instructions[b].version
    \/ /\ instructions[a].version = instructions[b].version
       /\ instructions[a].updated_at <= instructions[b].updated_at

\* row a sorts no later than row b under .order_by("-version", "-updated_at")
OrderedBefore(a, b) ==
    \/ instructions[a].version > instructions[b].version
    \/ /\ instructions[a].version = instructions[b].version
       /\ instructions[a].updated_at >= instructions[b].updated_at

\* .order_by("-version", "-updated_at").first(): the rows the database may
\* return first.  The ordering names no further key, so among rows equal in
\* version and updated_at the database is free to return any of them.
OrderByFirst(pks) ==
    IF pks = {} THEN {NoInstruction}
    ELSE {pk \in pks : \A other \in pks : OrderedBefore(pk, other)}

\* variant: one query over the case's and the global rows together
resolve_instruction_one_query(stage, case) ==
    OrderByFirst(FilterInstructions(case, stage) \cup FilterInstructions(None, stage))

\* resolve_instruction(stage, case): the set of results a call may return
resolve_instruction(stage, case) ==
    LET inst == OrderByFirst(FilterInstructions(case, stage))
    IN  IF inst # {NoInstruction} THEN inst
        ELSE OrderByFirst(FilterInstructions(None, stage))

(***************************************************************************)
(* services.py: case_norm_for_stage, render_instruction_body.              *)
(***************************************************************************)
\* Python values whose type the code asks for, by their type
JDict(d) == [type |-> "dict", value |-> d]
JList(l) == [type |-> "list", value |-> l]
JStr(s) == [type |-> "str", value |-> s]
JInt(n) == [type |-> "int", value |-> n]
JNone == [type |-> "NoneType", value |-> None]

\* bool(v)
Truthy(v) ==
    CASE v.type = "dict" -> DOMAIN v.value # {}
      [] v.type = "list" -> v.value # <<>>
      [] v.type = "str" -> v.value # ""
      [] v.type = "int" -> v.value # 0
      [] OTHER -> FALSE

\* variant: a stage outside the dict gets the diagnostics field
case_norm_for_stage_any_stage(case, stage) ==
    CASE stage = "meds" -> OrEmpty(CASES[case].meds_norm)
      [] stage = "reco" -> OrEmpty(CASES[case].reco_norm)
      [] stage = "dispo" -> OrEmpty(CASES[case].dispo_norm)
      [] OTHER -> OrEmpty(CASES[case].diagnostics_norm)

\* case_norm_for_stage(case, stage): the dict lookup with default ""
case_norm_for_stage(case, stage) ==
    CASE stage = "diagnostics" -> OrEmpty(CASES[case].diagnostics_norm)
      [] stage = "meds" -> OrEmpty(CASES[case].meds_norm)
      [] stage = "reco" -> OrEmpty(CASES[case].reco_norm)
      [] stage = "dispo" -> OrEmpty(CASES[case].dispo_norm)
      [] OTHER -> ""

\* "\n".join(answers) as characters
RECURSIVE JoinLines(_)
JoinLines(answers) ==
    IF answers = <<>> THEN <<>>
    ELSE IF Len(answers) = 1 THEN CharsOf(answers[1])
    ELSE CharsOf(answers[1]) \o CharsOf("\n") \o JoinLines(Tail(answers))

\* the text one part of a body contributes under the keyword arguments
RECURSIVE FormatParts(_, _)
FormatParts(parts, kwargs) ==
    IF parts = <<>> THEN <<>>
    ELSE (IF parts[1].field THEN kwargs[parts[1].s] ELSE CharsOf(parts[1].s))
            \o FormatParts(Tail(parts), kwargs)

\* variant: a replacement field that was not passed is left out of the text
str_format_skip_unknown(body, kwargs) ==
    Return(FormatParts(SelectSeq(body, LAMBDA p : ~p.field \/ p.s \in DOMAIN kwargs),
                       kwargs))

\* str.format(**kwargs): the text, or KeyError for the first field not passed
str_format(body, kwargs) ==
    LET unknown == {i \in 1..Len(body) : body[i].field /\ body[i].s \notin DOMAIN kwargs}
    IN  IF unknown # {}
        THEN Raise("KeyError", body[CHOOSE i \in unknown : \A j \in unknown : i <= j].s)
        ELSE Return(FormatParts(body, kwargs))

\* `"\n".join(x) if isinstance(x, (list, tuple)) else str(x or "")` for a
\* list of str, a str or None
history_text(x) ==
    IF x.type = "list" THEN JoinLines(x.value)
    ELSE IF Truthy(x) THEN CharsOf(x.value)
    ELSE CharsOf("")

\* render_instruction_body(inst, case, user_answers=, bot_answers=, actual_msg=)
render_instruction_body(inst, case, user_answers, bot_answers, actual_msg) ==
    LET user_hist == history_text(user_answers)
        bot_hist == history_text(bot_answers)
        case_norm == case_norm_for_stage(case, instructions[inst].stage)
        prelim_dx == OrEmpty(CASES[case].prelim_dx_raw)
    IN  str_format(instructions[inst].body,
                   [case_norm |-> CharsOf(case_norm),
                    prelim_dx |-> CharsOf(prelim_dx),
                    user_answers |-> user_hist,
                    bot_answers |-> bot_hist,
                    actual_msg |-> CharsOf(actual_msg)])

(***************************************************************************)
(* views/utils.py: the external model call and the stage reply.            *)
(***************************************************************************)
OPENAI_MODEL_PRIMARY == "gpt-4.1"
OPENAI_MODEL_FALLBACK == "gpt-4.1-mini"

\* the keywords of `recoverable`
RECOVERABLE_KEYWORDS ==
    <<"not found", "unsupported", "permission", "does not exist", "unknown model">>

\* variant: every OpenAIError is taken to be recoverable
recoverable_always(msg) == TRUE

\* variant: the keywords are looked up in the message as raised
recoverable_case_sensitive(msg) ==
    \E k \in Range(RECOVERABLE_KEYWORDS) : Contains(CharsOf(msg), CharsOf(k))

\* recoverable = any(k in str(e).lower() for k in [...])
recoverable(msg) ==
    \E k \in Range(RECOVERABLE_KEYWORDS) : Contains(lower(CharsOf(msg)), CharsOf(k))

\* recoverable, tabulated over the texts
RECOVERABLE == [msg \in DOMAIN TEXT |-> recoverable(msg)]

\* one client.responses.create(model=..., input=...) and what came of it
Invocation(model, input_text, out) == [model |-> model, input |-> input_text, out |-> out]

\* variant: a client is made whether or not the key is configured
make_openai_client_without_key(api_key) == Return("client")

\* _make_openai_client(): RuntimeError without settings.OPENAI_API_KEY
make_openai_client(api_key) ==
    IF ~api_key THEN Raise("RuntimeError", "Brak OPENAI_API_KEY w konfiguracji serwera.")
    ELSE Return("client")

\* variant: a failed fallback call is tried once more
call_openai_retry_fallback(api_key, input_text, first, second) ==
    LET client == make_openai_client(api_key)
        one == Invocation(OPENAI_MODEL_PRIMARY, input_text, first)
        two == Invocation(OPENAI_MODEL_FALLBACK, input_text, second)
    IN  IF client.exc # None THEN [calls |-> <<>>, out |-> client]
        ELSE IF first.exc = None THEN [calls |-> <<one>>, out |-> first]
        ELSE IF Catches("OpenAIError", first.exc) /\ RECOVERABLE[first.value]
             THEN IF second.exc = None THEN [calls |-> <<one, two>>, out |-> second]
                  ELSE [calls |-> <<one, two, two>>, out |-> second]
        ELSE [calls |-> <<one>>, out |-> first]

\* _call_openai_with_fallback(instructions=, input_text=, max_tokens=):
\* `first` and `second` are what the service does with the primary and with
\* the fallback request; the result is the invocations made and the outcome
\* (the extracted text, or the exception that leaves the function)
call_openai_with_fallback(api_key, input_text, first, second) ==
    LET client == make_openai_client(api_key)
        one == Invocation(OPENAI_MODEL_PRIMARY, input_text, first)
        two == Invocation(OPENAI_MODEL_FALLBACK, input_text, second)
    IN  IF client.exc # None THEN [calls |-> <<>>, out |-> client]
        ELSE IF first.exc = None THEN [calls |-> <<one>>, out |-> first]
        ELSE IF Catches("OpenAIError", first.exc) /\ RECOVERABLE[first.value]
             THEN [calls |-> <<one, two>>, out |-> second]
        ELSE [calls |-> <<one>>, out |-> first]

\* _render_instruction_from_db with the row resolve_instruction returned
render_instruction_from_db(inst, case, user_answers, bot_answers, actual_msg) ==
    IF inst = NoInstruction
    THEN Raise("Http404", "Brak aktywnej instrukcji dla etapu.")
    ELSE render_instruction_body(inst, case, user_answers, bot_answers, actual_msg)

\* the except clauses of _bot_reply_stage_db, in their order
reply_text(out) ==
    IF out.exc = None THEN out.value
    ELSE IF Catches("AuthenticationError", out.exc)
         THEN "Blad uwierzytelnienia z OpenAI. Sprawdz OPENAI_API_KEY w .env i uprawnienia do modelu w konsoli OpenAI."
    ELSE IF Catches("OpenAIError", out.exc)
         THEN "Blad uslugi OpenAI. Sprobuj ponownie za chwile."
    ELSE IF Catches("RuntimeError", out.exc)
         THEN TextOf(CharsOf("Konfiguracja: ") \o CharsOf(out.value))
    ELSE "Wewnetrzny blad bota. Sprobuj ponownie."

\* variant: without the last clause, `except Exception`
reply_raised_no_catch_all(out) ==
    IF \/ out.exc = None
       \/ Catches("OpenAIError", out.exc)
       \/ Catches("RuntimeError", out.exc)
    THEN None
    ELSE out.exc

\* the exception that leaves _bot_reply_stage_db: the one no except clause
\* catches (None: the function returns)
reply_raised(out) ==
    IF \/ out.exc = None
       \/ Catches("AuthenticationError", out.exc)
       \/ Catches("OpenAIError", out.exc)
       \/ Catches("RuntimeError", out.exc)
       \/ Catches("Exception", out.exc)
    THEN None
    ELSE out.exc

\* _bot_reply_stage_db(stage, case, user_text, user_answers, bot_answers,
\* actual_msg): what is handed to _render_instruction_from_db, the rendering,
\* the invocations made and the text returned
bot_reply_stage_db(inst, case, user_text, user_answers, bot_answers, actual_msg, api_key, first, second) ==
    LET instr == render_instruction_from_db(inst, case, user_answers, bot_answers,
                                            actual_msg)
        call == IF instr.exc # None THEN [calls |-> <<>>, out |-> instr]
                ELSE call_openai_with_fallback(api_key, user_text, first, second)
    IN  [rendered_with |-> [user_answers |-> user_answers, bot_answers |-> bot_answers,
                            actual_msg |-> actual_msg],
         instructions |-> instr, calls |-> call.calls, out |-> call.out,
         text |-> reply_text(call.out), raised |-> reply_raised(call.out)]

(***************************************************************************)
(* The external service: what one request may come to.                     *)
(***************************************************************************)
\* texts the model generates
ModelTexts == {"Pacjent - ZALICZAM etap.", "Prosze doprecyzowac.", ""}

\* the faults of client.responses.create: an unknown model (404), a wrong
\* key (401), a key restricted from the operation (401), a rate limit (429),
\* and a failure that is no OpenAIError
ServiceFaults ==
    {Raise("APIError", "Error code: 404 - Not Found"),
     Raise("AuthenticationError", "Incorrect API key provided"),
     Raise("AuthenticationError", "You have insufficient permissions for this operation."),
     Raise("APIError", "Rate limit reached"),
     Raise("AttributeError", "OpenAI object has no attribute responses")}

\* what the service may do with one request
ServiceOutcomes == {Return(t) : t \in ModelTexts} \cup ServiceFaults

(***************************************************************************)
(* Initial state: empty tables, no call made.                              *)
(***************************************************************************)
NotCalled == [called |-> FALSE, stage |-> None, case |-> None, inst |-> NoInstruction]

NoReply == [called |-> FALSE]

\* no request made yet
NoResponse == [status |-> 0]

\* a new browser session of an anonymous visitor; no attempt saved
NewSession ==
    /\ session = EmptyDict
    /\ user = None
    /\ histories = <<>>
    /\ response = NoResponse

\* no Case stored through the table under edit; `Case()` in memory
NoCases ==
    /\ cases = <<>>
    /\ instance = [pk |-> 0, slug |-> "", name |-> ""]

Init ==
    /\ instructions = <<>>
    /\ resolved = NotCalled
    /\ reply = NoReply
    /\ NewSession
    /\ NoCases

(***************************************************************************)
(* Administrator operations on Instruction (admin.py).                     *)
(***************************************************************************)
\* the latest value timezone.now() has returned to a save: the newest stamp
\* in the table (a row keeps its stamp until its own next save)
LatestStamp ==
    IF instructions = <<>> THEN 0
    ELSE CHOOSE t \in {instructions[pk].updated_at : pk \in InstructionPks} :
            \A pk \in InstructionPks : instructions[pk].updated_at <= t

\* timezone.now() at a save: the clock never runs backwards, and two saves
\* may read the same value
Now == LatestStamp..MaxTime

\* Instruction.save() of a new row, its fields drawn from the given sets;
\* auto_now stamps updated_at
SaveNewInstruction(scopes, bodies, actives, versions, stamps) ==
    /\ Len(instructions) < MaxInst
    /\ \E case \in scopes, stage \in InstStages, body \in bodies,
          active \in actives, version \in versions, t \in stamps :
          instructions' =
              Append(instructions, Instruction(case, stage, body, active, version, t))
    /\ resolved' = NotCalled
    /\ reply' = NoReply
    /\ UNCHANGED <<flowvars, casevars>>

\* InstructionAdmin / InstructionInline: add a row
AdminAddInstruction ==
    SaveNewInstruction(InstCases \cup {None}, {BODY_DIAGNOSE}, BOOLEAN,
                       1..MaxVersion, Now)

\* InstructionAdmin / InstructionInline: change version or active of a row
AdminChangeInstruction ==
    /\ \E pk \in InstructionPks, active \in BOOLEAN,
          version \in 1..MaxVersion, t \in Now :
          instructions' = [instructions EXCEPT ![pk] =
              [@ EXCEPT !.active = active, !.version = version, !.updated_at = t]]
    /\ resolved' = NotCalled
    /\ reply' = NoReply
    /\ UNCHANGED <<flowvars, casevars>>

\* a call resolve_instruction(stage, case) on the current snapshot
Resolve ==
    /\ \E stage \in QueryStages, case \in Cases :
          \E inst \in resolve_instruction(stage, case) :
              resolved' = [called |-> TRUE, stage |-> stage, case |-> case, inst |-> inst]
    /\ UNCHANGED <<instructions, reply>>
    /\ UNCHANGED <<flowvars, casevars>>

NextResolve ==
    \/ AdminAddInstruction
    \/ AdminChangeInstruction
    \/ Resolve

SpecResolve == Init /\ [][NextResolve]_vars

(***************************************************************************)
(* Stage replies: _bot_reply_stage_db against the table and the service.   *)
(***************************************************************************)
\* the bodies the administrator writes
Bodies == {BODY_DIAGNOSE, BODY_UNKNOWN_FIELD}

\* the earlier turns of the stage handed to the call: none, or one exchange
CallHistories ==
    {[user |-> <<>>, bot |-> <<>>],
     [user |-> <<"pacjent ma objawy">>, bot |-> <<"Prosze doprecyzowac.">>]}

\* InstructionAdmin: add an active first version of a template
AdminAddTemplate ==
    SaveNewInstruction(InstCases \cup {None}, Bodies, {TRUE}, {1}, {LatestStamp})

\* a call _bot_reply_stage_db(stage, case, msg, user_only, bot_only, msg)
BotReply ==
    /\ ~reply.called
    /\ \E stage \in QueryStages, case \in Cases, hist \in CallHistories,
          api_key \in BOOLEAN, first \in ServiceOutcomes, second \in ServiceOutcomes :
          \E inst \in resolve_instruction(stage, case) :
              LET msg == "kolejne pytanie"
                  r == bot_reply_stage_db(inst, case, msg, JList(hist.user), JList(hist.bot), msg,
                                          api_key, first, second)
              IN  reply' = [called |-> TRUE, stage |-> stage, case |-> case,
                            inst |-> inst, user_text |-> msg,
                            user_answers |-> hist.user, bot_answers |-> hist.bot,
                            api_key |-> api_key, instructions |-> r.instructions,
                            calls |-> r.calls, out |-> r.out, text |-> r.text]
    /\ UNCHANGED <<instructions, resolved>>
    /\ UNCHANGED <<flowvars, casevars>>

\* the text is handed to the view; the function keeps nothing
BotReplyReturns ==
    /\ reply.called
    /\ reply' = NoReply
    /\ UNCHANGED <<instructions, resolved>>
    /\ UNCHANGED <<flowvars, casevars>>

NextCall ==
    \/ AdminAddTemplate
    \/ BotReply
    \/ BotReplyReturns

SpecCall == Init /\ [][NextCall]_vars

(***************************************************************************)
(* views/utils.py: stages, pass phrase, summary assessment.                *)
(***************************************************************************)
STAGE_ORDER == <<"diagnostics", "first_exam", "meds", "reco", "dispo", "summary">>

LABELS ==
   "diagnostics" :> "Diagnostyka" @@
   "first_exam" :> "Rozpoznanie wstepne" @@
   "meds" :> "Leczenie ostre" @@
   "reco" :> "Zalecenia po leczeniu" @@
   "dispo" :> "Skierowanie / Dispo" @@
   "summary" :> "Podsumowanie"

\* STAGES with the override for "summary"
STAGES ==
    [s \in Range(STAGE_ORDER) |->
        [template |-> IF s = "summary" THEN "chat/summary.html" ELSE "chat/stage.html",
         targets_done |-> IF s = "summary" THEN <<>> ELSE <<"zaliczam">>]]

\* characters str.strip() removes: the space and the ASCII controls tab, line
\* feed, vertical tab, form feed and carriage return
WHITESPACE == {" ", "U+0009", "U+000A", "U+000B", "U+000C", "U+000D"}

\* str.lstrip(), str.rstrip() and str.strip() on a sequence of characters
RECURSIVE lstrip(_)
lstrip(chars) ==
    IF chars # <<>> /\ chars[1] \in WHITESPACE THEN lstrip(Tail(chars)) ELSE chars

RECURSIVE rstrip(_)
rstrip(chars) ==
    IF chars # <<>> /\ chars[Len(chars)] \in WHITESPACE
    THEN rstrip(SubSeq(chars, 1, Len(chars) - 1))
    ELSE chars

\* variant: the text as sent
strip_nothing(chars) == chars

strip(chars) == rstrip(lstrip(chars))

\* str.upper() on a sequence of characters
upper(chars) ==
    [i \in 1..Len(chars) |->
        IF \E u \in DOMAIN LOWER : LOWER[u] = chars[i]
        THEN CHOOSE u \in DOMAIN LOWER : LOWER[u] = chars[i]
        ELSE chars[i]]

\* unicodedata.normalize("NFD", c) of the characters that decompose
NFD ==
   "U+00F3" :> <<"o", "U+0301">> @@ "U+0105" :> <<"a", "U+0328">> @@
   "U+0107" :> <<"c", "U+0301">> @@ "U+0119" :> <<"e", "U+0328">> @@
   "U+0144" :> <<"n", "U+0301">> @@ "U+015B" :> <<"s", "U+0301">> @@
   "U+017A" :> <<"z", "U+0301">> @@ "U+017C" :> <<"z", "U+0307">> @@
   "U+00D3" :> <<"O", "U+0301">> @@ "U+0104" :> <<"A", "U+0328">> @@
   "U+0106" :> <<"C", "U+0301">> @@ "U+0118" :> <<"E", "U+0328">> @@
   "U+0143" :> <<"N", "U+0301">> @@ "U+015A" :> <<"S", "U+0301">> @@
   "U+0179" :> <<"Z", "U+0301">> @@ "U+017B" :> <<"Z", "U+0307">>

\* the characters of category Mn among them
COMBINING == {"U+0301", "U+0307", "U+0328"}

\* unicodedata.normalize("NFD", s): every character by its decomposition, the
\* text taken half by half
RECURSIVE normalize_NFD(_)
normalize_NFD(chars) ==
    IF chars = <<>> THEN <<>>
    ELSE IF Len(chars) = 1
    THEN (IF chars[1] \in DOMAIN NFD THEN NFD[chars[1]] ELSE chars)
    ELSE normalize_NFD(SubSeq(chars, 1, Len(chars) \div 2))
            \o normalize_NFD(SubSeq(chars, Len(chars) \div 2 + 1, Len(chars)))

\* _strip_accents(s)
strip_accents(chars) ==
    SelectSeq(normalize_NFD(chars), LAMBDA ch : ch \notin COMBINING)

\* _strip_accents(s).lower(), tabulated over the texts
NORMALIZED == [text \in DOMAIN TEXT |-> lower(strip_accents(CharsOf(text)))]

\* variant: every non-empty reply passes
check_can_proceed_any_reply(bot_text, targets) == bot_text # ""

\* _check_can_proceed(bot_text, targets)
check_can_proceed(bot_text, targets) ==
    IF bot_text = "" THEN FALSE
    ELSE \E t \in Range(targets) : Contains(NORMALIZED[bot_text], NORMALIZED[t])

\* one turn of a conversation
Message(role, text) == [role |-> role, text |-> text]

\* variant: the text of the first message of a role
LastAnswer_first(messages, role) ==
    LET turns == {i \in 1..Len(messages) : messages[i].role = role}
    IN  IF turns = {} THEN ""
        ELSE messages[CHOOSE i \in turns : \A j \in turns : i <= j].text

\* the text of the last message of a role, "" if there is none
LastAnswer(messages, role) ==
    LET turns == {i \in 1..Len(messages) : messages[i].role = role}
    IN  IF turns = {} THEN ""
        ELSE messages[CHOOSE i \in turns : \A j \in turns : i >= j].text

\* _build_stage_payload(chats)
build_stage_payload(chats) ==
    LET core == SelectSeq(STAGE_ORDER, LAMBDA s : s # "summary")
    IN  [i \in 1..Len(core) |->
            LET messages == Get(chats, core[i], <<>>)
            IN  [stage |-> core[i],
                 label |-> LABELS[core[i]],
                 conversation |-> messages,
                 user_last_answer |-> LastAnswer(messages, "user"),
                 assistant_last_answer |-> LastAnswer(messages, "assistant")]]

\* the lines "ROLE: text" of a conversation, each after a line break
RECURSIVE TranscriptLines(_)
TranscriptLines(conversation) ==
    IF conversation = <<>> THEN <<>>
    ELSE CharsOf("\n") \o upper(CharsOf(conversation[1].role)) \o CharsOf(": ")
            \o CharsOf(conversation[1].text) \o TranscriptLines(Tail(conversation))

\* the sections "## label" with their lines, joined by an empty line
RECURSIVE TranscriptSections(_)
TranscriptSections(stage_payload) ==
    IF stage_payload = <<>> THEN <<>>
    ELSE CharsOf("## ") \o CharsOf(stage_payload[1].label)
            \o TranscriptLines(stage_payload[1].conversation)
            \o (IF Len(stage_payload) = 1 THEN <<>> ELSE CharsOf("\n\n"))
            \o TranscriptSections(Tail(stage_payload))

\* _build_transcript(stage_payload)
build_transcript(stage_payload) == strip(TranscriptSections(stage_payload))

\* the texts that are JSON documents, with the value json.loads gives
JSON_DOCUMENTS ==
   "{\"score\": 80, \"verdict\": \"OK\", \"summary\": \"Testowe podsumowanie\"}" :>
       JDict("score" :> JInt(80) @@ "verdict" :> JStr("OK") @@
             "summary" :> JStr("Testowe podsumowanie")) @@
   "[\"OK\"]" :> JList(<<JStr("OK")>>) @@
   "{\"verdict\": \"~~~json\"}" :> JDict("verdict" :> JStr("~~~json"))

\* json.loads(text): the value of a document, JSONDecodeError for a text that
\* is no document, and RecursionError for a text that opens as many arrays as
\* the interpreter allows nested calls (the scanner recurses per array)
json_loads(chars) ==
    IF Len(chars) >= RecursionLimit /\ \A i \in 1..RecursionLimit : chars[i] = "["
    THEN Raise("RecursionError", TextOf(chars))
    ELSE IF chars \in DOMAIN HANDLE /\ TextOf(chars) \in DOMAIN JSON_DOCUMENTS
    THEN Return(JSON_DOCUMENTS[TextOf(chars)])
    ELSE Raise("JSONDecodeError", "Expecting value")

\* the code fence
FENCE == <<"U+0060", "U+0060", "U+0060">>

ASCII_LETTERS ==
    {"a", "b", "c", "d", "e", "f", "g", "h", "i", "j", "k", "l", "m", "n", "o", "p",
     "q", "r", "s", "t", "u", "v", "w", "x", "y", "z", "A", "B", "C", "D", "E", "F",
     "G", "H", "I", "J", "K", "L", "M", "N", "O", "P", "Q", "R", "S", "T", "U", "V",
     "W", "X", "Y", "Z"}

\* text.startswith(prefix)
StartsWith(chars, prefix) ==
    Len(chars) >= Len(prefix) /\ SubSeq(chars, 1, Len(prefix)) = prefix

\* re.sub(r"^```[a-zA-Z]*\n", "", text)
sub_fence_line(chars) ==
    LET letters == {n \in 0..(Len(chars) - 3) :
                        \A i \in 4..(3 + n) : chars[i] \in ASCII_LETTERS}
        run == CHOOSE n \in letters : \A k \in letters : n >= k
    IN  IF StartsWith(chars, FENCE) /\ Len(chars) > 3 + run /\ chars[4 + run] = "U+000A"
        THEN SubSeq(chars, 5 + run, Len(chars))
        ELSE chars

\* text.rsplit("```", 1)[0]
rsplit_fence(chars) ==
    LET at == {i \in 0..(Len(chars) - 3) : SubSeq(chars, i + 1, i + 3) = FENCE}
    IN  IF at = {} THEN chars
        ELSE SubSeq(chars, 1, CHOOSE i \in at : \A j \in at : i >= j)

\* the try of _extract_json_payload: `except json.JSONDecodeError` returns
\* None, any other exception of json.loads leaves the function
loaded_or_none(loaded) ==
    IF loaded.exc # None /\ Catches("JSONDecodeError", loaded.exc)
    THEN Return(JNone)
    ELSE loaded

\* the text _extract_json_payload hands to json.loads
unfenced(stripped) ==
    strip(IF StartsWith(stripped, FENCE)
          THEN rsplit_fence(sub_fence_line(stripped))
          ELSE stripped)

\* _extract_json_payload on the characters of raw_text: the value returned or
\* the exception raised
extract_json_chars(chars) ==
    IF chars = <<>> THEN Return(JNone)
    ELSE loaded_or_none(json_loads(unfenced(strip(chars))))

\* _extract_json_payload(raw_text)
extract_json_payload(raw_text) == extract_json_chars(CharsOf(raw_text))

\* the except clauses of generate_summary_assessment, in their order
summary_error(out) ==
    IF Catches("AuthenticationError", out.exc)
    THEN "Blad uwierzytelnienia z OpenAI. Sprawdz OPENAI_API_KEY i dostep do modelu."
    ELSE IF Catches("OpenAIError", out.exc)
         THEN "Blad uslugi OpenAI. Sprobuj ponownie pozniej."
    ELSE IF Catches("RuntimeError", out.exc)
         THEN TextOf(CharsOf("Konfiguracja: ") \o CharsOf(out.value))
    ELSE "Wewnetrzny blad podczas generowania podsumowania."

\* `_build_transcript(stage_payload) or "Brak historii rozmowy."`
transcript_or_placeholder(built) ==
    IF built = <<>> THEN CharsOf("Brak historii rozmowy.") ELSE built

\* lines 292-302: the reply is parsed outside the try; `parsed` is what
\* _extract_json_payload(raw_text) comes to
assess_reply(transcript, calls, raw_text, parsed) ==
    [calls |-> calls, transcript |-> transcript, raised |-> parsed.exc,
     payload |->
        IF parsed.exc # None THEN EmptyDict
        ELSE IF ~Truthy(parsed.value)
        THEN "error" :> "Nie udalo sie zinterpretowac odpowiedzi modelu." @@
             "raw" :> raw_text
        ELSE "data" :> parsed.value @@ "raw" :> raw_text]

\* lines 263-290: the try around the call, whose clauses end with
\* `except Exception`
assess_call(transcript, call) ==
    IF call.out.exc # None
    THEN [calls |-> call.calls, transcript |-> transcript, raised |-> None,
          payload |-> "error" :> summary_error(call.out) @@ "raw" :> ""]
    ELSE assess_reply(transcript, call.calls, TextOf(strip(CharsOf(call.out.value))),
                      extract_json_payload(TextOf(strip(CharsOf(call.out.value)))))

\* the call with the transcript as its input
assess_transcript(transcript, api_key, first, second) ==
    assess_call(transcript, call_openai_with_fallback(api_key, transcript, first, second))

\* variant: every stage by case_norm_for_stage, which knows no first_exam
canonical_answers_payload_by_norm(case) ==
    [stage \in Range(STAGE_CHOICES) |-> case_norm_for_stage(case, stage)]

\* canonical_answers_payload, the dict the prompt's block of canonical
\* answers is dumped from
canonical_answers_payload(case) ==
    "diagnostics" :> OrEmpty(CASES[case].diagnostics_norm) @@
    "first_exam" :> OrEmpty(CASES[case].prelim_dx_raw) @@
    "meds" :> OrEmpty(CASES[case].meds_norm) @@
    "reco" :> OrEmpty(CASES[case].reco_norm) @@
    "dispo" :> OrEmpty(CASES[case].dispo_norm)

\* generate_summary_assessment(case, chats): the canonical answers put into
\* the prompt, the invocations made, the transcript sent, the exception that
\* leaves the function (None: it returns) and the dict returned
generate_summary_assessment(case, chats, api_key, first, second) ==
    assess_transcript(
        transcript_or_placeholder(build_transcript(build_stage_payload(chats))),
        api_key, first, second)
        @@ [canonical_answers |-> canonical_answers_payload(case)]

(***************************************************************************)
(* views/chat_views.py, views/history_views.py, views/auth_views.py:       *)
(* the requests of one browser.                                            *)
(***************************************************************************)
\* most CaseHistory rows ever created
MaxHist == 2
\* most exchanges without a passing reply kept in the session and the rows
MaxRetries == 1

\* the account the visitor may sign in to
Users == {"tester"}

\* redirect(name, ...), render(request, template, context), JsonResponse(body),
\* Http404 and the answer to an exception no handler catches
redirect(to) == [status |-> 302, to |-> to]
render(template, context) == [status |-> 200, template |-> template, context |-> context]
JsonResponse(body) == [status |-> 200, json |-> body]
NotFound(msg) == [status |-> 404, error |-> msg]
ServerError(cls) == [status |-> 500, error |-> cls]

\* CaseHistory.objects.create(user=, case=, chats=, completed_stages=, is_completed=)
CaseHistory(owner, case, chats, completed_stages, is_completed) ==
    [user |-> owner, case |-> case, chats |-> chats,
     completed_stages |-> completed_stages, is_completed |-> is_completed]

\* variant: the reset keeps case_saved
CleanState_keeps_saved(case_slug) ==
    "active_case_slug" :> case_slug @@ "chats" :> EmptyDict @@
    "completed_stages" :> <<>> @@ "can_proceed_to_dx" :> FALSE

\* the five keys both resets assign
CleanState(case_slug) ==
    "active_case_slug" :> case_slug @@ "chats" :> EmptyDict @@
    "completed_stages" :> <<>> @@ "can_proceed_to_dx" :> FALSE @@
    "case_saved" :> FALSE

\* variant: the texts of all turns
TextsOf_any_role(chat, role) == [i \in 1..Len(chat) |-> chat[i].text]

\* the texts of the turns of one role, in order
TextsOf(chat, role) ==
    LET turns == SelectSeq(chat, LAMBDA m : m.role = role)
    IN  [i \in 1..Len(turns) |-> turns[i].text]

\* variant: the reply is recorded unless it reports a failed call
AppendExchange_drop_failed_reply(chat, msg, bot_text) ==
    IF bot_text \in {reply_text(fault) : fault \in ServiceFaults}
    THEN Append(chat, Message("user", msg))
    ELSE chat \o <<Message("user", msg), Message("assistant", bot_text)>>

\* variant: the chat of the stage starts over with each exchange
AppendExchange_restart(chat, msg, bot_text) ==
    <<Message("user", msg), Message("assistant", bot_text)>>

\* the two chat.append calls around _bot_reply_stage_db
AppendExchange(chat, msg, bot_text) ==
    chat \o <<Message("user", msg), Message("assistant", bot_text)>>

\* variant: the attempt is stored and case_saved is left as it was
auto_save_keeps_flag(entered, case_slug, chats, completed_stages, data) ==
    [session |-> entered,
     histories |-> Append(histories,
        CaseHistory(user, case_slug,
            Put(chats, "__summary__",
                [verdict |-> Get(data.value, "verdict", JStr("")),
                 summary |-> Get(data.value, "summary", JStr("")),
                 score |-> Get(data.value, "score", JNone)]),
            completed_stages, TRUE))]

\* variant: `chats_to_save = chats`, the summary block written into the dict
\* the session holds
auto_save_without_copy(entered, case_slug, chats, completed_stages, data) ==
    [session |->
        Put(Put(entered, "case_saved", TRUE), "chats",
            Put(chats, "__summary__",
                [verdict |-> Get(data.value, "verdict", JStr("")),
                 summary |-> Get(data.value, "summary", JStr("")),
                 score |-> Get(data.value, "score", JNone)])),
     histories |-> Append(histories,
        CaseHistory(user, case_slug,
            Put(chats, "__summary__",
                [verdict |-> Get(data.value, "verdict", JStr("")),
                 summary |-> Get(data.value, "summary", JStr("")),
                 score |-> Get(data.value, "score", JNone)]),
            completed_stages, TRUE))]

\* variant: the visitor's earlier attempts are marked as not completed when a
\* new one is stored
auto_save_supersedes(entered, case_slug, chats, completed_stages, data) ==
    [session |-> Put(entered, "case_saved", TRUE),
     histories |-> Append([pk \in DOMAIN histories |->
                            [histories[pk] EXCEPT !.is_completed = FALSE]],
        CaseHistory(user, case_slug,
            Put(chats, "__summary__",
                [verdict |-> Get(data.value, "verdict", JStr("")),
                 summary |-> Get(data.value, "summary", JStr("")),
                 score |-> Get(data.value, "score", JNone)]),
            completed_stages, TRUE))]

\* the body of `if request.user.is_authenticated and not case_saved:` once
\* data is a dict: the row created and the session afterwards
auto_save(entered, case_slug, chats, completed_stages, data) ==
    [session |-> Put(entered, "case_saved", TRUE),
     histories |-> Append(histories,
        CaseHistory(user, case_slug,
            Put(chats, "__summary__",
                [verdict |-> Get(data.value, "verdict", JStr("")),
                 summary |-> Get(data.value, "summary", JStr("")),
                 score |-> Get(data.value, "score", JNone)]),
            completed_stages, TRUE))]

\* variant: no core stage counts as missing
missing_stages_none(completed_stages) == <<>>

\* `core_stages = [s for s in STAGE_ORDER if s != "summary"]` and
\* `missing = [s for s in core_stages if s not in completed_stages]`
missing_stages(completed_stages) ==
    LET core_stages == SelectSeq(STAGE_ORDER, LAMBDA s : s # "summary")
    IN  SelectSeq(core_stages, LAMBDA s : s \notin Range(completed_stages))

\* the branch of stage_view for stage == "summary"; `assessment` is what
\* generate_summary_assessment(case, chats) comes to when it is called.  The
\* view has no handler of its own around the call.
summary_stage(entered, case_slug, chats, completed_stages, assessment) ==
    LET missing == missing_stages(completed_stages)
        summary_payload == assessment.payload
        case_saved == Get(entered, "case_saved", FALSE)
        found == Get(summary_payload, "data", JDict(EmptyDict))
        data == IF Truthy(found) THEN found ELSE JDict(EmptyDict)
        saved == auto_save(entered, case_slug, chats, completed_stages, data)
        page(s) == render(STAGES["summary"].template,
                          [case_saved |-> Get(s, "case_saved", FALSE),
                           summary_payload |-> summary_payload])
    IN  IF missing # <<>>
        THEN [session |-> entered, histories |-> histories,
              response |-> redirect(<<"chat-stage", case_slug, missing[1]>>),
              calls |-> <<>>]
        ELSE IF assessment.raised # None
        THEN [session |-> session, histories |-> histories,
              response |-> ServerError(assessment.raised), calls |-> assessment.calls]
        ELSE IF user # None /\ ~case_saved
        THEN IF data.type # "dict"
             THEN [session |-> session, histories |-> histories,
                   response |-> ServerError("AttributeError"),
                   calls |-> assessment.calls]
             ELSE [session |-> saved.session, histories |-> saved.histories,
                   response |-> page(saved.session), calls |-> assessment.calls]
        ELSE [session |-> entered, histories |-> histories, response |-> page(entered),
              calls |-> assessment.calls]

\* variant: the list of completed stages starts over with the stage
completed_append_restart(completed_stages, stage) == <<stage>>

\* `completed_stages.append(stage)`
completed_append(completed_stages, stage) == Append(completed_stages, stage)

\* the POST of a message once the reply is known: lines 128-153
accept_reply(entered, case_slug, stage, ajax, msg, bot_text, passed) ==
    LET chats == Get(entered, "chats", EmptyDict)
        completed_stages == Get(entered, "completed_stages", <<>>)
        chat == Get(chats, stage, <<>>)
        with_chat == IF msg = "" THEN entered
                     ELSE Put(entered, "chats",
                              Put(chats, stage, AppendExchange(chat, msg, bot_text)))
        with_stage == IF passed /\ stage \notin Range(completed_stages)
                      THEN Put(with_chat, "completed_stages",
                               completed_append(completed_stages, stage))
                      ELSE with_chat
        after == IF passed THEN Put(with_stage, "can_proceed_to_dx", TRUE)
                 ELSE with_stage
    IN  [session |-> after, histories |-> histories,
         response |->
            IF ajax
            THEN JsonResponse([ok |-> TRUE, bot_text |-> bot_text,
                    stage_completed |->
                        passed \/ stage \in Range(Get(after, "completed_stages", <<>>))])
            ELSE redirect(<<"chat-stage", case_slug, stage>>)]

\* `if msg:` with the call made: `bot` is what _bot_reply_stage_db did.  The
\* view has no handler of its own around the call.
answer_message(entered, case_slug, stage, ajax, msg, bot) ==
    IF bot.raised # None
    THEN [session |-> session, histories |-> histories,
          response |-> ServerError(bot.raised), bot |-> bot]
    ELSE accept_reply(entered, case_slug, stage, ajax, msg, bot.text,
                      check_can_proceed(bot.text, STAGES[stage].targets_done))
            @@ [bot |-> bot]

\* the POST branch of stage_view for a stage that is not completed
stage_post(entered, case_slug, stage, message, ajax, inst, api_key, first, second) ==
    LET chat == Get(Get(entered, "chats", EmptyDict), stage, <<>>)
        msg == TextOf(strip(CharsOf(OrEmpty(message))))
        user_only == TextsOf(chat, "user")
        bot_only == TextsOf(chat, "assistant")
    IN  IF msg = ""
        THEN accept_reply(entered, case_slug, stage, ajax, msg, "", FALSE)
        ELSE answer_message(entered, case_slug, stage, ajax, msg,
                [called |-> TRUE, inst |-> inst, api_key |-> api_key]
                    @@ bot_reply_stage_db(inst, case_slug, msg, JList(user_only), JList(bot_only),
                                          msg, api_key, first, second))

\* variant: no stage counts as completed
stage_completed_never(stage, completed_stages) == FALSE

\* `stage_completed = stage in completed_stages`
stage_completed(stage, completed_stages) == stage \in Range(completed_stages)

\* stage_view(request, case_slug, stage): the session and the table after the
\* request, and the response.  `inst` is the row resolve_instruction returns,
\* `first` and `second` what the service does with the requests made to it.
stage_view(method, case_slug, stage, message, ajax, inst, api_key, first, second) ==
    LET entered == IF Get(session, "active_case_slug", None) # case_slug
                   THEN CleanState(case_slug) @@ session
                   ELSE session
        chats == Get(entered, "chats", EmptyDict)
        completed_stages == Get(entered, "completed_stages", <<>>)
    IN  IF stage \notin DOMAIN STAGES
        THEN [session |-> session, histories |-> histories,
              response |-> NotFound("Nieznany etap")]
        ELSE IF case_slug \notin DOMAIN CASES
        THEN [session |-> session, histories |-> histories,
              response |-> NotFound("No Case matches the given query.")]
        ELSE IF stage = "summary"
        THEN summary_stage(entered, case_slug, chats, completed_stages,
                generate_summary_assessment(case_slug, chats, api_key, first, second))
        ELSE IF method = "GET"
        THEN [session |-> entered, histories |-> histories,
              response |-> render(STAGES[stage].template,
                                  [stage_completed |->
                                      stage_completed(stage, completed_stages)])]
        ELSE IF stage_completed(stage, completed_stages)
        THEN [session |-> entered, histories |-> histories,
              response |-> IF ajax
                           THEN JsonResponse([ok |-> FALSE, error |-> "stage_completed"])
                           ELSE redirect(<<"chat-stage", case_slug, stage>>)]
        ELSE stage_post(entered, case_slug, stage, message, ajax, inst,
                        api_key, first, second)

\* reset_case_view(request, case_slug)
reset_case_view(case_slug) ==
    IF case_slug \notin DOMAIN CASES
    THEN [session |-> session, response |-> NotFound("No Case matches the given query.")]
    ELSE [session |-> CleanState(case_slug) @@ session,
          response |-> redirect(<<"chat-stage", case_slug, "diagnostics">>)]

\* CaseHistory.objects.filter(user=request.user): the keys of the visitor's rows
OwnRows == {pk \in DOMAIN histories : histories[pk].user = user}

\* @login_required: an anonymous visitor is sent to the login page
login_required(page) == IF user = None THEN redirect(<<"login">>) ELSE page

\* history_list_view(request)
history_list_view ==
    login_required(render("chat/history_list.html", [items |-> OwnRows]))

\* completed_grouped(request): per case, the number of the visitor's attempts
completed_grouped ==
    login_required(render("chat/completed_grouped.html",
        [groups |-> {[case |-> histories[pk].case,
                      total |-> Cardinality({k \in OwnRows :
                                    histories[k].case = histories[pk].case})] :
                        pk \in OwnRows}]))

\* completed_case(request, case_slug)
completed_case(case_slug) ==
    IF user = None THEN redirect(<<"login">>)
    ELSE IF case_slug \notin DOMAIN CASES
    THEN NotFound("No Case matches the given query.")
    ELSE render("chat/completed_case.html",
                [case |-> case_slug,
                 items |-> {pk \in OwnRows : histories[pk].case = case_slug}])

\* completed_detail(request, pk)
completed_detail(pk) ==
    IF user = None THEN redirect(<<"login">>)
    ELSE IF pk \notin OwnRows
    THEN NotFound("No CaseHistory matches the given query.")
    ELSE render("chat/completed_detail.html",
                [item |-> histories[pk],
                 summary_meta |-> Get(histories[pk].chats, "__summary__", EmptyDict)])

(***************************************************************************)
(* The conversational flow: one browser against the seeded catalogue.      *)
(***************************************************************************)
\* settings.OPENAI_API_KEY is configured on the server of the flow
OPENAI_API_KEY_SET == TRUE

\* the instruction table of the flow: an active global first version for
\* every core stage
FlowInstructions ==
    [i \in 1..Len(STAGE_CHOICES) |->
        Instruction("case-a", STAGE_CHOICES[i], BODY_DIAGNOSE, TRUE, 1, 0)]

\* what the service answers to a stage request: a passing reply, a reply
\* that does not pass, a rejected key
StageReplies ==
    {Return("Pacjent - ZALICZAM etap."), Return("Prosze doprecyzowac."),
     Raise("AuthenticationError", "Incorrect API key provided")}

\* what the service answers to a summary request: the object asked for, or
\* a list
SummaryReplies ==
    {Return("{\"score\": 80, \"verdict\": \"OK\", \"summary\": \"Testowe podsumowanie\"}"),
     Return("[\"OK\"]")}

\* the service is not asked
NotAsked == Return("")

\* a POST and what the service answers if it is asked: a message without
\* text reaches no service, and no reply of the flow makes the view ask twice
PostInputs ==
    {[message |-> m, first |-> NotAsked] : m \in {None, "  "}}
        \cup {[message |-> m, first |-> f] :
                m \in {" pacjent ma objawy "}, f \in StageReplies}

\* the stages the pages link to: those completed, the first one missing, the
\* summary
OfferedStages ==
    LET completed_stages == Get(session, "completed_stages", <<>>)
        missing == SelectSeq(STAGE_CHOICES, LAMBDA s : s \notin Range(completed_stages))
    IN  {"summary"}
            \cup (IF completed_stages = <<>> THEN {}
                  ELSE {completed_stages[Len(completed_stages)]})
            \cup (IF missing = <<>> THEN {} ELSE {missing[1]})

\* the exchanges of a conversation
RECURSIVE Exchanges(_, _)
Exchanges(chats, stages) ==
    IF stages = <<>> THEN 0
    ELSE Len(Get(chats, stages[1], <<>>)) \div 2 + Exchanges(chats, Tail(stages))

\* the exchanges without a passing reply in a conversation
Retries(chats, completed_stages) ==
    Exchanges(chats, STAGE_CHOICES) - Len(completed_stages)

\* the same over the rows of a table
RECURSIVE RetriesOfRows(_)
RetriesOfRows(rows) ==
    IF rows = <<>> THEN 0
    ELSE Retries(rows[1].chats, rows[1].completed_stages) + RetriesOfRows(Tail(rows))

InitFlow ==
    /\ instructions = FlowInstructions
    /\ resolved = NotCalled
    /\ reply = NoReply
    /\ NewSession
    /\ NoCases

\* the requests the request made to the service
Calls(r) ==
    IF "calls" \in DOMAIN r THEN r.calls
    ELSE IF "bot" \in DOMAIN r THEN r.bot.calls
    ELSE <<>>

\* what `reply` keeps of a request of the flow: the view, whether the summary
\* was asked for, and the requests made to the service
Made(view, stage, calls) ==
    [called |-> TRUE, view |-> view, summary |-> stage = "summary", calls |-> calls]

\* the request is served: the session is saved, the row (if any) is stored.
\* A request that would take the rows or the retries past the bounds is not
\* made, and a signed-in visitor takes to the summary the attempts that
\* needed no retry.
Serve(stage, r) ==
    /\ Len(r.histories) <= MaxHist
    /\ Retries(Get(r.session, "chats", EmptyDict),
               Get(r.session, "completed_stages", <<>>)) <= MaxRetries
    /\ RetriesOfRows(r.histories) = 0
    /\ session' = r.session
    /\ histories' = r.histories
    /\ response' = r.response
    /\ reply' = Made("stage_view", stage, Calls(r))
    /\ UNCHANGED <<user, instructions, resolved, cases, instance>>

\* GET <case>/<stage>/ for a core stage, or for a name that is no stage
StageGet ==
    \E case_slug \in Cases, stage \in (OfferedStages \ {"summary"}) \cup {"unknown"} :
        Serve(stage, stage_view("GET", case_slug, stage, None, FALSE, NoInstruction,
                                OPENAI_API_KEY_SET, NotAsked, NotAsked))

\* POST <case>/<stage>/ for a core stage
StagePost ==
    \E case_slug \in Cases, stage \in OfferedStages \ {"summary"},
       input \in PostInputs, ajax \in BOOLEAN :
        \E inst \in resolve_instruction(stage, case_slug) :
            Serve(stage, stage_view("POST", case_slug, stage, input.message, ajax, inst,
                                    OPENAI_API_KEY_SET, input.first, NotAsked))

\* GET or POST <case>/summary/
SummaryVisit ==
    \E method \in {"GET", "POST"}, case_slug \in Cases, first \in SummaryReplies :
        Serve("summary", stage_view(method, case_slug, "summary", None, FALSE,
                                    NoInstruction, OPENAI_API_KEY_SET, first, NotAsked))

\* POST reset/<case>/
ResetCase ==
    \E case_slug \in Cases :
        LET r == reset_case_view(case_slug)
        IN  /\ session' = r.session
            /\ response' = r.response
            /\ reply' = Made("reset_case_view", None, <<>>)
            /\ UNCHANGED <<user, histories, instructions, resolved, cases, instance>>

\* login_view, register_view: login(request, user) keeps the session's data
Login ==
    /\ user = None
    /\ \E account \in Users : user' = account
    /\ response' = redirect(<<"home">>)
    /\ reply' = Made("login_view", None, <<>>)
    /\ UNCHANGED <<session, histories, instructions, resolved, cases, instance>>

Next ==
    \/ StageGet
    \/ StagePost
    \/ SummaryVisit
    \/ ResetCase
    \/ Login

Spec == InitFlow /\ [][Next]_vars

\* GET of a history page: the list, the folders, the attempts of a case, one
\* attempt (a stored one, or a key no row has)
HistoryVisit ==
    /\ \/ response' = history_list_view
       \/ response' = completed_grouped
       \/ \E case_slug \in Cases \cup {"unknown"} : response' = completed_case(case_slug)
       \/ \E pk \in 1..(Len(histories) + 1) : response' = completed_detail(pk)
    /\ reply' = Made("history", None, <<>>)
    /\ UNCHANGED <<session, user, histories, instructions, resolved, cases, instance>>

\* the flow with the history pages
NextHistory ==
    \/ Next
    \/ HistoryVisit

SpecHistory == InitFlow /\ [][NextHistory]_vars

(***************************************************************************)
(* Single requests: stage_view and reset_case_view against a table with    *)
(* every kind of instruction and a service with every kind of answer.      *)
(***************************************************************************)
\* the table: a global template for diagnostics and a template of case-a for
\* meds that names a field not passed; case-b has no instruction for meds
RequestInstructions ==
    <<Instruction(None, "diagnostics", BODY_DIAGNOSE, TRUE, 1, 0),
      Instruction("case-a", "meds", BODY_UNKNOWN_FIELD, TRUE, 1, 0)>>

\* the core stages the requests are made for
RequestStages == {"diagnostics", "meds"}

\* what the service does with the primary request and, after a fault that
\* names an unavailable model, with the fallback request
ServiceAnswers ==
    {[first |-> f, second |-> NotAsked] :
        f \in {Return("Pacjent - ZALICZAM etap."), Return("Prosze doprecyzowac."),
               Raise("AuthenticationError", "Incorrect API key provided"),
               Raise("APIError", "Rate limit reached"),
               Raise("AttributeError", "OpenAI object has no attribute responses")}}
        \cup {[first |-> Raise("APIError", "Error code: 404 - Not Found"), second |-> s] :
                s \in {Return("Pacjent - ZALICZAM etap."),
                       Raise("APIError", "Error code: 404 - Not Found")}}

\* a POST: the message field, the AJAX marker, whether
\* settings.OPENAI_API_KEY is set, and the answers of the service (a message
\* without text and a server without key reach no service)
RequestInputs ==
    {[message |-> None, ajax |-> x, api_key |-> TRUE,
      first |-> NotAsked, second |-> NotAsked] : x \in BOOLEAN}
        \cup {[message |-> "  ", ajax |-> FALSE, api_key |-> TRUE,
                first |-> NotAsked, second |-> NotAsked]}
        \cup {[message |-> " pacjent ma objawy ", ajax |-> FALSE, api_key |-> FALSE,
                first |-> NotAsked, second |-> NotAsked]}
        \cup {[message |-> " pacjent ma objawy ", ajax |-> FALSE, api_key |-> TRUE,
                first |-> a.first, second |-> a.second] : a \in ServiceAnswers}
        \cup {[message |-> " pacjent ma objawy ", ajax |-> TRUE, api_key |-> TRUE,
                first |-> Return("Pacjent - ZALICZAM etap."), second |-> NotAsked]}

InitRequest ==
    /\ instructions = RequestInstructions
    /\ resolved = NotCalled
    /\ reply = NoReply
    /\ NewSession
    /\ NoCases

\* the request is answered: the session is saved and `reply` keeps what was
\* asked, the session the request arrived in and what _bot_reply_stage_db
\* did, if it was called.  A request that would take the exchanges without a
\* passing reply past the bound is not made.
Answer(asked, r) ==
    /\ Retries(Get(r.session, "chats", EmptyDict),
               Get(r.session, "completed_stages", <<>>)) <= MaxRetries
    /\ session' = r.session
    /\ histories' = r.histories
    /\ response' = r.response
    /\ reply' = asked @@ [arrived |-> session,
                           bot |-> IF "bot" \in DOMAIN r THEN r.bot ELSE NoReply]
    /\ UNCHANGED <<user, instructions, resolved, cases, instance>>

\* GET <case>/<stage>/: a core stage, the summary, or a name that is no stage
RequestGet ==
    \E case_slug \in Cases, stage \in RequestStages \cup {"summary", "unknown"} :
        Answer([called |-> TRUE, view |-> "stage_view", method |-> "GET",
                case |-> case_slug, stage |-> stage, message |-> None, ajax |-> FALSE,
                api_key |-> OPENAI_API_KEY_SET],
               stage_view("GET", case_slug, stage, None, FALSE, NoInstruction,
                          OPENAI_API_KEY_SET, NotAsked, NotAsked))

\* POST <case>/<stage>/ for a core stage
RequestPost ==
    \E case_slug \in Cases, stage \in RequestStages, input \in RequestInputs :
        \E inst \in resolve_instruction(stage, case_slug) :
            Answer([called |-> TRUE, view |-> "stage_view", method |-> "POST",
                    case |-> case_slug, stage |-> stage, message |-> input.message,
                    ajax |-> input.ajax, api_key |-> input.api_key],
                   stage_view("POST", case_slug, stage, input.message, input.ajax, inst,
                              input.api_key, input.first, input.second))

\* POST <case>/reset/
RequestReset ==
    \E case_slug \in Cases :
        LET r == reset_case_view(case_slug)
        IN  /\ session' = r.session
            /\ response' = r.response
            /\ reply' = [called |-> TRUE, view |-> "reset_case_view", method |-> "POST",
                         case |-> case_slug, stage |-> None, message |-> None,
                         ajax |-> FALSE, api_key |-> OPENAI_API_KEY_SET,
                         arrived |-> session, bot |-> NoReply]
            /\ UNCHANGED <<user, histories, instructions, resolved, cases, instance>>

NextRequest ==
    \/ RequestGet
    \/ RequestPost
    \/ RequestReset

SpecRequest == InitRequest /\ [][NextRequest]_vars

(***************************************************************************)
(* models.py: Case.save, and the operator's add and change forms           *)
(* (admin.py: CaseAdmin shows name and slug as fields of both).            *)
(***************************************************************************)
\* most rows of the Case table
MaxCases == 2

DIGITS == {"0", "1", "2", "3", "4", "5", "6", "7", "8", "9"}

\* unicodedata.normalize("NFKD", value).encode("ascii", "ignore"): a
\* character that decomposes leaves its base letter, any other character
\* outside ASCII leaves nothing
to_ascii(chars) ==
    LET kept == SelectSeq(chars, LAMBDA ch :
                    ch \in DOMAIN NFD \/ ch \in ASCII_LETTERS \cup DIGITS
                        \cup WHITESPACE \cup {"-", "_", "!", ".", ",", "/", ":"})
    IN  [i \in 1..Len(kept) |-> IF kept[i] \in DOMAIN NFD THEN NFD[kept[i]][1] ELSE kept[i]]

\* re.sub(r"[^\w\s-]", "", value)
sub_not_word(chars) ==
    SelectSeq(chars, LAMBDA ch :
        ch \in ASCII_LETTERS \cup DIGITS \cup WHITESPACE \cup {"-", "_"})

\* re.sub(r"[-\s]+", "-", value): of every run of hyphens and whitespace the
\* last character stays, as a hyphen
sub_dashes(chars) ==
    LET in_run(i) == chars[i] \in WHITESPACE \cup {"-"}
        kept == SelectSeq([i \in 1..Len(chars) |-> i],
                          LAMBDA i : ~in_run(i) \/ i = Len(chars) \/ ~in_run(i + 1))
    IN  [k \in 1..Len(kept) |-> IF in_run(kept[k]) THEN "-" ELSE chars[kept[k]]]

\* value.strip("-_")
strip_dashes(chars) ==
    LET inner == {i \in 1..Len(chars) : chars[i] \notin {"-", "_"}}
    IN  IF inner = {} THEN <<>>
        ELSE SubSeq(chars, CHOOSE i \in inner : \A j \in inner : i <= j,
                    CHOOSE i \in inner : \A j \in inner : i >= j)

\* django.utils.text.slugify(value)
slugify(chars) == strip_dashes(sub_dashes(sub_not_word(lower(to_ascii(chars)))))

\* value[:n]
Truncated(chars, n) == IF Len(chars) > n THEN SubSeq(chars, 1, n) ELSE chars

\* a Case in memory and a row of the table, by the two unique fields
CaseInstance(pk, slug, name) == [pk |-> pk, slug |-> slug, name |-> name]
CaseRow(slug, name) == [slug |-> slug, name |-> name]

\* the unique constraints on slug and name refuse the row for the place pk
\* (0: a new row)
IntegrityError(pk, row) ==
    \E other \in (1..Len(cases)) \ {pk} :
        cases[other].slug = row.slug \/ cases[other].name = row.name

\* Model.save() under Case.save: the INSERT of an instance without pk, the
\* UPDATE of the row of one with pk; a refused statement stores nothing
super_save(obj) ==
    IF IntegrityError(obj.pk, CaseRow(obj.slug, obj.name))
    THEN [cases |-> cases, instance |-> obj]
    ELSE IF obj.pk = 0
    THEN [cases |-> Append(cases, CaseRow(obj.slug, obj.name)),
          instance |-> [obj EXCEPT !.pk = Len(cases) + 1]]
    ELSE [cases |-> [cases EXCEPT ![obj.pk] = CaseRow(obj.slug, obj.name)],
          instance |-> obj]

\* Case.save(self)
Case_save(self) ==
    super_save(IF self.slug = ""
               THEN [self EXCEPT !.slug =
                        TextOf(Truncated(slugify(CharsOf(self.name)), SlugMaxLength))]
               ELSE self)

\* the names the operator gives: two that differ in case only, one with an
\* accent, a letter outside ASCII and punctuation, one longer than a slug
CaseNames == {"Test case", "Test Case", "Bol glowy!", "a * 121"}

\* the slugs the operator types
TypedSlugs == {"inny-slug", "test-case"}

InitCases ==
    /\ instructions = <<>>
    /\ resolved = NotCalled
    /\ reply = NoReply
    /\ NewSession
    /\ NoCases

\* Case(name=...): the instance behind Case.objects.create(name=...) and
\* behind the add form with the slug left to save()
NewCase ==
    /\ \E name \in CaseNames : instance' = CaseInstance(0, "", name)
    /\ UNCHANGED <<instructions, resolved, reply, flowvars, cases>>

\* Case.objects.get(pk=pk): the change form opens a stored case
GetCase ==
    /\ \E pk \in 1..Len(cases) :
          instance' = CaseInstance(pk, cases[pk].slug, cases[pk].name)
    /\ UNCHANGED <<instructions, resolved, reply, flowvars, cases>>

\* the form assigns the name field
SetName ==
    /\ \E name \in CaseNames : instance' = [instance EXCEPT !.name = name]
    /\ UNCHANGED <<instructions, resolved, reply, flowvars, cases>>

\* the form assigns the slug field
SetSlug ==
    /\ \E slug \in TypedSlugs : instance' = [instance EXCEPT !.slug = slug]
    /\ UNCHANGED <<instructions, resolved, reply, flowvars, cases>>

\* instance.save()
SaveCase ==
    /\ Len(Case_save(instance).cases) <= MaxCases
    /\ cases' = Case_save(instance).cases
    /\ instance' = Case_save(instance).instance
    /\ UNCHANGED <<instructions, resolved, reply, flowvars>>

NextCases ==
    \/ NewCase
    \/ GetCase
    \/ SetName
    \/ SetSlug
    \/ SaveCase

SpecCases == InitCases /\ [][NextCases]_vars

(***************************************************************************)
(* Single calls of the helpers: generate_summary_assessment,               *)
(* render_instruction_body and _check_can_proceed with their arguments.    *)
(***************************************************************************)
\* the conversations handed to generate_summary_assessment: none, a stage
\* opened without a message, one exchange, exchanges of two stages
AssessedChats ==
    {EmptyDict,
     "diagnostics" :> <<>>,
     "diagnostics" :> <<Message("user", "pacjent ma objawy"),
                        Message("assistant", "Pacjent - ZALICZAM etap.")>>,
     "diagnostics" :> <<Message("user", "pacjent ma objawy"),
                        Message("assistant", "Pacjent - ZALICZAM etap.")>> @@
        "meds" :> <<Message("user", "kolejne pytanie"),
                    Message("assistant", "Prosze doprecyzowac.")>>}

\* what the service returns to the summary request: the object asked for,
\* bare or in a code fence, a list, prose, nothing, and arrays opened as deep
\* as the interpreter's recursion limit
AssessmentTexts ==
    {"{\"score\": 80, \"verdict\": \"OK\", \"summary\": \"Testowe podsumowanie\"}",
     "~~~json\n{\"score\": 80, \"verdict\": \"OK\", \"summary\": \"Testowe podsumowanie\"}\n~~~",
     "[\"OK\"]", "Nie potrafie ocenic.", "", "[ * 1000"}

\* whether settings.OPENAI_API_KEY is set, and what the service does with the
\* primary and with the fallback request of the summary
AssessmentInputs ==
    {[api_key |-> FALSE, first |-> NotAsked, second |-> NotAsked]}
        \cup {[api_key |-> TRUE, first |-> Return(text), second |-> NotAsked] :
                text \in AssessmentTexts}
        \cup {[api_key |-> TRUE, first |-> fault, second |-> NotAsked] :
                fault \in {Raise("AuthenticationError", "Incorrect API key provided"),
                           Raise("APIError", "Rate limit reached"),
                           Raise("AttributeError", "OpenAI object has no attribute responses")}}
        \cup {[api_key |-> TRUE, first |-> Raise("APIError", "Error code: 404 - Not Found"),
               second |-> s] :
                s \in {Return("Nie potrafie ocenic."),
                       Raise("APIError", "Error code: 404 - Not Found")}}

\* the bodies rendered: every field, one field, a field that is not passed
RenderedBodies == <<BODY_ALL_FIELDS, BODY_DIAGNOSE, BODY_UNKNOWN_FIELD>>

\* the rows rendered: every body for every stage an Instruction can have
HelperInstructions ==
    [i \in 1..(Len(STAGE_CHOICES) * Len(RenderedBodies)) |->
        Instruction(None, STAGE_CHOICES[((i - 1) \div Len(RenderedBodies)) + 1],
                    RenderedBodies[((i - 1) % Len(RenderedBodies)) + 1], TRUE, 1, 0)]

\* the answers passed: None, no answer, one, two, an empty str, a str that
\* reads like a replacement field
AnswerValues ==
    <<JNone, JList(<<>>), JList(<<"pacjent ma objawy">>),
      JList(<<"pacjent ma objawy", "kolejne pytanie">>), JStr(""), JStr("{prelim_dx}")>>

\* the current message
RenderedMessages == {"kolejne pytanie", "{prelim_dx}"}

InitHelpers ==
    /\ instructions = HelperInstructions
    /\ resolved = NotCalled
    /\ reply = NoReply
    /\ NewSession
    /\ NoCases

\* a helper is called, once: `reply` keeps the arguments and what the call
\* came to
Called(asked, result) ==
    /\ ~reply.called
    /\ reply' = asked @@ [called |-> TRUE, result |-> result]
    /\ UNCHANGED <<instructions, resolved, session, user, histories, response, cases,
                   instance>>

\* generate_summary_assessment(case, chats)
Assess ==
    \E case \in Cases, chats \in AssessedChats, input \in AssessmentInputs :
        Called([fn |-> "generate_summary_assessment", case |-> case, chats |-> chats,
                api_key |-> input.api_key, first |-> input.first,
                second |-> input.second],
               generate_summary_assessment(case, chats, input.api_key,
                                           input.first, input.second))

\* render_instruction_body(inst, case, user_answers=, bot_answers=, actual_msg=)
Render ==
    \E inst \in InstructionPks, case \in Cases, u \in DOMAIN AnswerValues,
       b \in DOMAIN AnswerValues, actual_msg \in RenderedMessages :
        Called([fn |-> "render_instruction_body", inst |-> inst, case |-> case,
                user_answers |-> AnswerValues[u], bot_answers |-> AnswerValues[b],
                actual_msg |-> actual_msg],
               render_instruction_body(inst, case, AnswerValues[u], AnswerValues[b],
                                       actual_msg))

\* the replies checked: passing in capitals, passing with an accent, not
\* passing, the target itself, none
CheckedTexts ==
    {"Pacjent - ZALICZAM etap.", "ZALICZAM", "Nie zaliczasz.", "Prosze doprecyzowac.",
     "zaliczam", ""}

\* the target lists checked: those of STAGES, a target with capitals and an
\* accent, two targets
CheckedTargets ==
    {STAGES[s].targets_done : s \in DOMAIN STAGES}
        \cup {<<"ZALICZAM">>, <<"not found", "zaliczam">>}

\* _check_can_proceed(bot_text, targets)
CheckCanProceed ==
    \E bot_text \in CheckedTexts, targets \in CheckedTargets :
        Called([fn |-> "_check_can_proceed", bot_text |-> bot_text, targets |-> targets],
               check_can_proceed(bot_text, targets))

\* the chats handed to _build_stage_payload: none, a stage without message,
\* two exchanges and a lone user turn, a turn of the assistant alone, and
\* chats that hold a "summary" and a "__summary__" entry
PayloadChats ==
    <<EmptyDict,
      "meds" :> <<>>,
      "diagnostics" :> <<Message("user", "pacjent ma objawy"),
                         Message("assistant", "Prosze doprecyzowac."),
                         Message("user", "kolejne pytanie"),
                         Message("assistant", "Pacjent - ZALICZAM etap.")>> @@
         "reco" :> <<Message("user", "kolejne pytanie")>>,
      "dispo" :> <<Message("assistant", "Prosze doprecyzowac.")>>,
      "first_exam" :> <<Message("user", "pacjent ma objawy"),
                        Message("assistant", "Pacjent - ZALICZAM etap.")>> @@
         "summary" :> <<Message("user", "kolejne pytanie"),
                        Message("assistant", "Prosze doprecyzowac.")>> @@
         "__summary__" :> [verdict |-> JStr("OK"), summary |-> JStr("Testowe podsumowanie"),
                           score |-> JInt(80)]>>

\* _build_stage_payload(chats)
BuildStagePayload ==
    \E c \in DOMAIN PayloadChats :
        Called([fn |-> "_build_stage_payload", chats |-> PayloadChats[c]],
               build_stage_payload(PayloadChats[c]))

\* the objects the model is asked for: the assessment, and one with a fence
\* inside a string
ReplyObjects ==
    {"{\"score\": 80, \"verdict\": \"OK\", \"summary\": \"Testowe podsumowanie\"}",
     "{\"verdict\": \"~~~json\"}"}

\* what a reply puts before and after the object: nothing, whitespace, a
\* fence without and with a language tag, whitespace around the fences and
\* around the object, a closing fence right after the object, a tag with a
\* digit, lines ended by CR LF
ReplyWrappings ==
    <<[before |-> "", after |-> ""],
      [before |-> " \n", after |-> "\n "],
      [before |-> "~~~\n", after |-> "\n~~~"],
      [before |-> "~~~json\n", after |-> "\n~~~"],
      [before |-> " \n~~~json\n  ", after |-> "  \n~~~\n "],
      [before |-> "~~~JSON\n", after |-> "~~~"],
      [before |-> "~~~json5\n", after |-> "\n~~~"],
      [before |-> "~~~json\r\n", after |-> "\r\n~~~"]>>

\* the characters of a reply that wraps an object
Wrapped(wrapping, object) ==
    CharsOf(wrapping.before) \o CharsOf(object) \o CharsOf(wrapping.after)

\* the replies parsed: every object in every wrapping, prose, whitespace,
\* nothing
ParsedTexts ==
    {Wrapped(ReplyWrappings[w], object) : w \in DOMAIN ReplyWrappings, object \in ReplyObjects}
        \cup {CharsOf("Nie potrafie ocenic."), CharsOf("  "), CharsOf("")}

\* _extract_json_payload(raw_text)
ExtractJsonPayload ==
    \E chars \in ParsedTexts :
        Called([fn |-> "_extract_json_payload", raw_text |-> chars],
               extract_json_chars(chars))

NextHelpers ==
    \/ Assess
    \/ Render
    \/ CheckCanProceed
    \/ BuildStagePayload
    \/ ExtractJsonPayload

SpecHelpers == InitHelpers /\ [][NextHelpers]_vars

(***************************************************************************)
(* Properties of resolve_instruction (checked under SpecResolve).          *)
(***************************************************************************)
\* the active rows of a stage scoped to `case` (None: the global rows), stated
\* directly on the table
ActiveRows(case, stage) ==
    {pk \in InstructionPks :
        /\ <<instructions[pk].case, instructions[pk].stage>> = <<case, stage>>
        /\ instructions[pk].active = TRUE}

\* the row the last call returned
ResolvedRow == instructions[resolved.inst]

\* C1: when an active case-specific and an active global instruction both
\* exist for the stage, the call returns a row of the given case, whatever
\* the versions and update times.
C1_CaseSpecificWins ==
    (/\ resolved.called
     /\ ActiveRows(resolved.case, resolved.stage) # {}
     /\ ActiveRows(None, resolved.stage) # {})
    => /\ resolved.inst # NoInstruction
       /\ ResolvedRow.case = resolved.case

\* C1 witness: a call returned the case's row although a global row of the
\* stage has a higher version and a later update time.
C1_Witness ==
    /\ resolved.called
    /\ resolved.inst # NoInstruction
    /\ ResolvedRow.case = resolved.case
    /\ \E g \in ActiveRows(None, resolved.stage) :
          /\ instructions[g].version > ResolvedRow.version
          /\ instructions[g].updated_at > ResolvedRow.updated_at

\* C2: with no active case-specific instruction but an active global one for
\* the stage, the call returns an active global row of that stage, also when
\* inactive case-specific rows exist.
C2_FallsBackToGlobal ==
    (/\ resolved.called
     /\ ActiveRows(resolved.case, resolved.stage) = {}
     /\ ActiveRows(None, resolved.stage) # {})
    => resolved.inst \in ActiveRows(None, resolved.stage)

\* C2 witness: the call returned a global row while an inactive row of the
\* case and stage is in the table.
C2_Witness ==
    /\ resolved.called
    /\ resolved.inst \in ActiveRows(None, resolved.stage)
    /\ \E pk \in InstructionPks :
          /\ instructions[pk].case = resolved.case
          /\ instructions[pk].stage = resolved.stage
          /\ ~instructions[pk].active

\* C3: the call returns absent exactly when no active row of the stage is
\* scoped to the case or global; a returned row is active, of the requested
\* stage, and scoped to the given case or to no case.
C3_AbsentIffNoneAndResultInScope ==
    resolved.called =>
        /\ resolved.inst = NoInstruction
              <=> ActiveRows(resolved.case, resolved.stage)
                     \cup ActiveRows(None, resolved.stage) = {}
        /\ resolved.inst # NoInstruction =>
              /\ resolved.inst \in InstructionPks
              /\ ResolvedRow.active
              /\ ResolvedRow.stage = resolved.stage
              /\ ResolvedRow.case \in {resolved.case, None}

\* C3 witness: the call returned absent although the table holds an active
\* row of the requested stage scoped to another case.
C3_Witness ==
    /\ resolved.called
    /\ resolved.inst = NoInstruction
    /\ \E pk \in InstructionPks :
          /\ instructions[pk].active
          /\ instructions[pk].stage = resolved.stage
          /\ instructions[pk].case \notin {resolved.case, None}

\* C4: the returned row has the highest version among the active rows of its
\* scope and stage and, among those of that version, the latest updated_at.
C4_HighestVersionThenLatest ==
    (resolved.called /\ resolved.inst # NoInstruction) =>
        \A pk \in ActiveRows(ResolvedRow.case, resolved.stage) :
            /\ instructions[pk].version <= ResolvedRow.version
            /\ instructions[pk].version = ResolvedRow.version
                  => instructions[pk].updated_at <= ResolvedRow.updated_at

\* C4 witness: the returned row beat a row of its scope with the same version
\* on updated_at, and the row first created is the one that lost.
C4_Witness ==
    /\ resolved.called
    /\ resolved.inst # NoInstruction
    /\ \E pk \in ActiveRows(ResolvedRow.case, resolved.stage) :
          /\ pk # resolved.inst
          /\ instructions[pk].version = ResolvedRow.version
          /\ instructions[pk].updated_at < ResolvedRow.updated_at

\* C5: on an unchanged table, two calls with the same stage and case return
\* the same record, also when several candidates of the winning scope share
\* the highest version and the same updated_at.
C5_SameRecordOnRepeatedCall ==
    [][(/\ resolved.called
        /\ resolved'.called
        /\ instructions' = instructions
        /\ resolved'.stage = resolved.stage
        /\ resolved'.case = resolved.case)
       => resolved'.inst = resolved.inst]_vars

(***************************************************************************)
(* Properties of the external call and the stage reply (SpecCall).         *)
(***************************************************************************)
\* the fault classes of the service proper (the OpenAIError family)
ServiceFaultClasses == {"AuthenticationError", "APIError"}

\* the fault messages that name a model-availability problem (not found,
\* unsupported, permission, does not exist, unknown model), read off the
\* messages themselves
AvailabilityMessages ==
    {"Error code: 404 - Not Found",
     "You have insufficient permissions for this operation."}

\* the models invoked by the last call, in order
InvokedModels == [i \in 1..Len(reply.calls) |-> reply.calls[i].model]

\* C8: the secondary model is invoked if and only if the primary invocation
\* failed with a service fault whose message names a model-availability
\* problem; a successful primary call or any other fault leads to no second
\* invocation, and the fallback is never retried (at most two invocations,
\* primary first).
C8_FallbackIffAvailabilityFault ==
    reply.called =>
        /\ InvokedModels \in {<<>>, <<OPENAI_MODEL_PRIMARY>>,
                              <<OPENAI_MODEL_PRIMARY, OPENAI_MODEL_FALLBACK>>}
        /\ OPENAI_MODEL_FALLBACK \in Range(InvokedModels)
              <=> /\ reply.calls # <<>>
                  /\ reply.calls[1].out.exc \in ServiceFaultClasses
                  /\ reply.calls[1].out.value \in AvailabilityMessages

\* C8 witness: the primary call failed with "Not Found", the fallback was
\* invoked, failed as well and was not tried again.
C8_Witness ==
    /\ reply.called
    /\ Len(reply.calls) = 2
    /\ reply.calls[1].out = Raise("APIError", "Error code: 404 - Not Found")
    /\ reply.calls[2].model = OPENAI_MODEL_FALLBACK
    /\ reply.calls[2].out.exc = "APIError"
    /\ reply.out = reply.calls[2].out

\* C9: when the service answers the primary call with an authentication
\* fault, no further call is made and the stage reply is the fixed
\* authentication-error message.
C9_AuthFaultNotRetried ==
    (/\ reply.called
     /\ reply.calls # <<>>
     /\ reply.calls[1].out.exc = "AuthenticationError")
    => /\ Len(reply.calls) = 1
       /\ reply.text = "Blad uwierzytelnienia z OpenAI. Sprawdz OPENAI_API_KEY w .env i uprawnienia do modelu w konsoli OpenAI."

\* the texts _bot_reply_stage_db returns for the fault kinds other than a
\* template failure
OtherFaultReplies ==
    {reply_text(Raise(cls, "Brak OPENAI_API_KEY w konfiguracji serwera.")) :
        cls \in DOMAIN BASES \ {"KeyError"}}

\* C10: when the resolved body names a field outside the five passed,
\* rendering fails without partial output, the model is not invoked, and the
\* failure reaches the caller of the stage reply distinct from the other
\* fault kinds.
C10_TemplateFailureDistinct ==
    (/\ reply.called
     /\ reply.inst # NoInstruction
     /\ instructions[reply.inst].body = BODY_UNKNOWN_FIELD)
    => /\ reply.instructions.exc # None
       /\ reply.calls = <<>>
       /\ reply.text \notin OtherFaultReplies

(***************************************************************************)
(* Properties of the conversational flow (checked under Spec).             *)
(***************************************************************************)
\* the session's fields with the defaults the views read them with
CaseSaved(s) == Get(s, "case_saved", FALSE)
SessionChats(s) == Get(s, "chats", EmptyDict)
CompletedStages(s) == Get(s, "completed_stages", <<>>)
ActiveCase(s) == Get(s, "active_case_slug", None)

\* the five core stages
CoreStages == Range(STAGE_ORDER) \ {"summary"}

\* C6, as stated: within one session, over any sequence of requests, a Case
\* Attempt Record is created once and no later request of the session creates
\* another.  (Refuted: a reset or a case switch clears case_saved, and the
\* next completed attempt of the session is recorded as well.)
C6_RecordOncePerSession == Len(histories) <= 1

\* C6, amended: a Case Attempt Record is created at most once per attempt.
\* A request creates at most one record, and only as a visit by an
\* authenticated user whose session lists all core stages as completed and has
\* case_saved unset; that request sets case_saved and leaves the attempt as
\* it is.  case_saved is unset again only by a request that starts the
\* session anew (a reset, which leaves it clean, or a request for another
\* case, which leaves at most its own exchange in it), so no request creates
\* a second record of the same attempt.
C6_RecordOncePerAttempt ==
    [][/\ \/ histories' = histories
          \/ /\ Len(histories') = Len(histories) + 1
             /\ SubSeq(histories', 1, Len(histories)) = histories
             /\ user # None
             /\ CoreStages \subseteq Range(CompletedStages(session))
             /\ ~CaseSaved(session)
             /\ CaseSaved(session')
             /\ ActiveCase(session') = ActiveCase(session)
             /\ SessionChats(session') = SessionChats(session)
             /\ CompletedStages(session') = CompletedStages(session)
       /\ (CaseSaved(session) /\ ~CaseSaved(session')) =>
             /\ Exchanges(SessionChats(session'), STAGE_CHOICES) <= 1
             /\ Len(CompletedStages(session')) <= 1
             /\ \/ ActiveCase(session') # ActiveCase(session)
                \/ SessionChats(session') = EmptyDict]_vars

\* two attempts of the session are recorded, the second after a reset or a
\* case switch, and the flag is set again
C6_Witness ==
    /\ Len(histories) = 2
    /\ CaseSaved(session)
    /\ CoreStages \subseteq Range(CompletedStages(session))

\* C7: in every reachable session state each stage's message list is
\* non-empty and of even length, its turns alternating user, assistant, ...,
\* from a user turn to an assistant turn, whether the external call behind a
\* reply succeeded or failed.
C7_TurnsAlternate ==
    \A stage \in DOMAIN SessionChats(session) :
        LET chat == SessionChats(session)[stage]
        IN  /\ Len(chat) > 0
            /\ Len(chat) % 2 = 0
            /\ \A i \in 1..Len(chat) :
                  chat[i].role = IF i % 2 = 1 THEN "user" ELSE "assistant"

\* a stage with two exchanges: the first call was refused by the service and
\* its report is the assistant turn, the second reply passed
C7_Witness ==
    \E stage \in DOMAIN SessionChats(session) :
        LET chat == SessionChats(session)[stage]
        IN  /\ Len(chat) = 4
            /\ chat[2].text =
                  reply_text(Raise("AuthenticationError", "Incorrect API key provided"))
            /\ stage \in Range(CompletedStages(session))

(***************************************************************************)
(* Properties of single requests (checked under SpecRequest).              *)
(***************************************************************************)
\* the session as stage_view reads it once the case check of lines 22-29 is
\* done: clean if the request is for another case than the active one
AsEntered(s, case_slug) ==
    IF ActiveCase(s) # case_slug THEN CleanState(case_slug) @@ s ELSE s

\* the text of a posted message field: absent is empty, blanks are trimmed
Posted(message) == IF message = None THEN "" ELSE TextOf(strip(CharsOf(message)))

\* the request `asked` is a POST with a non-empty message to a core stage that
\* is not completed in the session `s` it arrives in
PostsMessage(asked, s) ==
    /\ asked.called
    /\ asked.view = "stage_view"
    /\ asked.method = "POST"
    /\ asked.stage \in CoreStages
    /\ Posted(asked.message) # ""
    /\ asked.stage \notin Range(CompletedStages(AsEntered(s, asked.case)))

\* the table holds no active instruction for the stage, neither for the case
\* nor global
NothingResolves(stage, case) ==
    \A pk \in InstructionPks :
        ~(/\ instructions[pk].stage = stage
          /\ instructions[pk].active
          /\ instructions[pk].case \in {case, None})

\* the messages a configuration error is reported with
ConfigurationErrorTexts ==
    {"Wewnetrzny blad bota. Sprobuj ponownie.",
     "Konfiguracja: Brak OPENAI_API_KEY w konfiguracji serwera."}

\* the chat of the stage ends with the posted message and the given reply
EndsWithExchange(s, stage, message, text) ==
    LET chat == Get(SessionChats(s), stage, <<>>)
    IN  /\ Len(chat) >= 2
        /\ chat[Len(chat) - 1] = Message("user", Posted(message))
        /\ chat[Len(chat)] = Message("assistant", text)

\* C11: when no instruction can be resolved for the stage and case of a
\* posted message, or the server has no credential for the service, the
\* request is answered (no crash), the stage's chat ends with the user's
\* message and an assistant turn carrying an error message (which an AJAX
\* response carries as well), the external model is not called at all, and
\* the stage is not in completed_stages afterwards.
C11_ConfigurationErrorIsAnswered ==
    [][(/\ PostsMessage(reply', session)
        /\ \/ NothingResolves(reply'.stage, reply'.case)
           \/ ~reply'.api_key)
       => /\ response'.status \in {200, 302}
          /\ reply'.bot.called
          /\ reply'.bot.calls = <<>>
          /\ reply'.bot.text \in ConfigurationErrorTexts
          /\ EndsWithExchange(session', reply'.stage, reply'.message, reply'.bot.text)
          /\ Len(Get(SessionChats(session'), reply'.stage, <<>>))
                = Len(Get(SessionChats(AsEntered(session, reply'.case)),
                          reply'.stage, <<>>)) + 2
          /\ reply'.ajax => response'.json.bot_text = reply'.bot.text
          /\ reply'.stage \notin Range(CompletedStages(session'))]_vars

\* a message was posted to a stage of case-b that has no instruction while the
\* key is configured: the chat of the stage holds the message and the report
C11_Witness ==
    /\ reply.called
    /\ reply.method = "POST"
    /\ reply.case = "case-b"
    /\ reply.stage = "meds"
    /\ reply.api_key
    /\ reply.bot.called
    /\ reply.bot.inst = NoInstruction
    /\ reply.bot.calls = <<>>
    /\ SessionChats(session)["meds"] =
          <<Message("user", "pacjent ma objawy"),
            Message("assistant", "Wewnetrzny blad bota. Sprobuj ponownie.")>>
    /\ response.status = 302

\* C12: whatever instruction resolution, rendering, the primary call and the
\* fallback call come to, _bot_reply_stage_db returns a text and raises
\* nothing, and a POST with a non-empty message to a stage that is not
\* completed ends with a response (a redirect or a JSON body), never with an
\* unhandled fault.
C12_StageReplyNeverRaises ==
    [][PostsMessage(reply', session)
       => /\ reply'.bot.called
          /\ reply'.bot.raised = None
          /\ reply'.bot.text \in DOMAIN TEXT
          /\ response'.status \in {200, 302}
          /\ response'.status = 200 <=> reply'.ajax]_vars

\* the primary call failed with "Not Found", the fallback failed as well, and
\* the POST was answered with a redirect, the report in the chat
C12_Witness ==
    /\ reply.called
    /\ reply.method = "POST"
    /\ reply.bot.called
    /\ Len(reply.bot.calls) = 2
    /\ reply.bot.out.exc = "APIError"
    /\ reply.bot.text = "Blad uslugi OpenAI. Sprobuj ponownie za chwile."
    /\ EndsWithExchange(session, reply.stage, reply.message, reply.bot.text)
    /\ response.status = 302

\* the replies of the service that hold the pass phrase of a core stage
PassingReplies == {"Pacjent - ZALICZAM etap."}

\* the stage has the same chat and the same completion status in both sessions
SameStage(stage, a, b) ==
    /\ stage \in DOMAIN SessionChats(a) <=> stage \in DOMAIN SessionChats(b)
    /\ Get(SessionChats(a), stage, <<>>) = Get(SessionChats(b), stage, <<>>)
    /\ stage \in Range(CompletedStages(a)) <=> stage \in Range(CompletedStages(b))

\* C17: a POST with a non-empty message to a core stage that is not completed
\* appends the user turn and one assistant turn to the chat of that stage,
\* adds the stage to completed_stages and sets can_proceed_to_dx if and only
\* if the reply holds the pass phrase, and leaves the chat and the completion
\* status of every other stage as they were.
C17_PostAppendsExchange ==
    [][PostsMessage(reply', session)
       => /\ Get(SessionChats(session'), reply'.stage, <<>>)
                = Get(SessionChats(AsEntered(session, reply'.case)), reply'.stage, <<>>)
                    \o <<Message("user", Posted(reply'.message)),
                         Message("assistant", reply'.bot.text)>>
          /\ reply'.stage \in Range(CompletedStages(session'))
                <=> reply'.bot.text \in PassingReplies
          /\ reply'.bot.text \in PassingReplies
                => Get(session', "can_proceed_to_dx", FALSE) = TRUE
          /\ reply'.bot.text \notin PassingReplies
                => Get(session', "can_proceed_to_dx", FALSE)
                      = Get(AsEntered(session, reply'.case), "can_proceed_to_dx", FALSE)
          /\ \A other \in CoreStages \ {reply'.stage} :
                SameStage(other, session', AsEntered(session, reply'.case))]_vars

\* C17 witness: a passing reply to a message posted to diagnostics, while the
\* chat of meds holds an exchange that did not pass: diagnostics is completed
\* and has its exchange, meds is as it was.
C17_Witness ==
    /\ reply.called
    /\ reply.method = "POST"
    /\ reply.stage = "diagnostics"
    /\ reply.bot.called
    /\ reply.bot.text = "Pacjent - ZALICZAM etap."
    /\ SessionChats(session)["diagnostics"] =
          <<Message("user", "pacjent ma objawy"),
            Message("assistant", "Pacjent - ZALICZAM etap.")>>
    /\ CompletedStages(session) = <<"diagnostics">>
    /\ session["can_proceed_to_dx"] = TRUE
    /\ "meds" \in DOMAIN SessionChats(session)
    /\ Len(SessionChats(session)["meds"]) = 2

\* the texts of the turns at the odd (from = 1) or even (from = 2) places
EveryOther(chat, from) == [i \in 1..((Len(chat) + 2 - from) \div 2) |-> chat[2 * i - 2 + from].text]

IsBlank(message) ==
    message = None \/ \A i \in DOMAIN CharsOf(message) : CharsOf(message)[i] \in WHITESPACE

\* the request `asked` is a POST to a core stage with a blank message
PostsBlank(asked) ==
    /\ asked.called
    /\ asked.view = "stage_view"
    /\ asked.method = "POST"
    /\ asked.stage \in CoreStages
    /\ IsBlank(asked.message)

\* C31: a POST with a blank message to a core stage, completed or not, is
\* answered without _bot_reply_stage_db being called (no instruction is
\* resolved, no request made to the service), and leaves chats,
\* completed_stages and can_proceed_to_dx as the view found them (after a
\* case switch has cleared them): no turn is appended, no stage completed.
C31_BlankPostChangesNothing ==
    [][PostsBlank(reply')
       => /\ reply'.bot = NoReply
          /\ response'.status \in {200, 302}
          /\ SessionChats(session') = SessionChats(AsEntered(session, reply'.case))
          /\ CompletedStages(session')
                = CompletedStages(AsEntered(session, reply'.case))
          /\ Get(session', "can_proceed_to_dx", FALSE)
                = Get(AsEntered(session, reply'.case), "can_proceed_to_dx", FALSE)
          /\ "json" \in DOMAIN response' /\ response'.json.ok
                => /\ response'.json.bot_text = ""
                   /\ response'.json.stage_completed
                        <=> reply'.stage \in Range(CompletedStages(session'))]_vars

\* blanks were posted to diagnostics after an exchange that did not pass: the
\* chat still holds that exchange alone and the stage is not completed
C31_Witness ==
    /\ PostsBlank(reply)
    /\ reply.message = "  "
    /\ reply.stage = "diagnostics"
    /\ reply.bot = NoReply
    /\ ActiveCase(reply.arrived) = reply.case
    /\ SessionChats(session) = SessionChats(reply.arrived)
    /\ "diagnostics" \in DOMAIN SessionChats(session)
    /\ Len(SessionChats(session)["diagnostics"]) = 2
    /\ CompletedStages(session) = <<>>
    /\ response = redirect(<<"chat-stage", reply.case, "diagnostics">>)

\* the request `asked` is a POST to a core stage that is completed in the
\* session `s` it arrives in
PostsToCompleted(asked, s) ==
    /\ asked.called
    /\ asked.view = "stage_view"
    /\ asked.method = "POST"
    /\ asked.stage \in CoreStages
    /\ asked.stage \in Range(CompletedStages(AsEntered(s, asked.case)))

\* C18: a POST to a stage that is in completed_stages is rejected: nothing is
\* appended, _bot_reply_stage_db is not called (so no instruction is resolved
\* and the model is not called), chats, completed_stages and case_saved stay
\* as they were, and an AJAX request is answered ok=false with the error
\* stage_completed (a form post with a redirect).
C18_CompletedStageRejectsPost ==
    [][PostsToCompleted(reply', session)
       => /\ ~reply'.bot.called
          /\ SessionChats(session') = SessionChats(session)
          /\ "chats" \in DOMAIN session'
          /\ CompletedStages(session') = CompletedStages(session)
          /\ CaseSaved(session') = CaseSaved(session)
          /\ "case_saved" \in DOMAIN session' <=> "case_saved" \in DOMAIN session
          /\ IF reply'.ajax
             THEN /\ response'.status = 200
                  /\ response'.json.ok = FALSE
                  /\ response'.json.error = "stage_completed"
             ELSE response'.status = 302]_vars

\* C18 witness: an AJAX POST with a message to the completed stage diagnostics
\* was answered with the error, the chat still the one exchange that passed.
C18_Witness ==
    /\ reply.called
    /\ reply.method = "POST"
    /\ reply.stage = "diagnostics"
    /\ reply.ajax
    /\ Posted(reply.message) # ""
    /\ ~reply.bot.called
    /\ "diagnostics" \in Range(CompletedStages(session))
    /\ Len(SessionChats(session)["diagnostics"]) = 2
    /\ "json" \in DOMAIN response
    /\ "error" \in DOMAIN response.json
    /\ response.json.error = "stage_completed"

\* the five keys of the session are set and hold the clean state of the case
IsClean(s, case) ==
    /\ {"active_case_slug", "chats", "completed_stages", "can_proceed_to_dx",
        "case_saved"} \subseteq DOMAIN s
    /\ s["active_case_slug"] = case
    /\ s["chats"] = EmptyDict
    /\ s["completed_stages"] = <<>>
    /\ s["can_proceed_to_dx"] = FALSE
    /\ s["case_saved"] = FALSE

\* the session holds what one request to `stage` leaves of a clean state: at
\* most one exchange in that stage, at most that stage completed
IsCleanButFor(s, case, stage) ==
    /\ {"active_case_slug", "chats", "completed_stages", "can_proceed_to_dx",
        "case_saved"} \subseteq DOMAIN s
    /\ s["active_case_slug"] = case
    /\ DOMAIN s["chats"] \subseteq {stage}
    /\ \A st \in DOMAIN s["chats"] : Len(s["chats"][st]) = 2
    /\ s["completed_stages"] \in {<<>>, <<stage>>}
    /\ s["can_proceed_to_dx"] = (s["completed_stages"] # <<>>)
    /\ s["case_saved"] = FALSE

\* sequence `a` is the beginning of sequence `b`
IsPrefix(a, b) == Len(a) <= Len(b) /\ SubSeq(b, 1, Len(a)) = a

\* nothing of the session `a` is reset in the session `b`
KeepsState(a, b) ==
    /\ ActiveCase(b) = ActiveCase(a)
    /\ \A st \in DOMAIN SessionChats(a) :
          /\ st \in DOMAIN SessionChats(b)
          /\ IsPrefix(SessionChats(a)[st], SessionChats(b)[st])
    /\ IsPrefix(CompletedStages(a), CompletedStages(b))
    /\ Get(a, "can_proceed_to_dx", FALSE) => Get(b, "can_proceed_to_dx", FALSE)
    /\ CaseSaved(b) = CaseSaved(a)

\* C19: a reset_case_view request, and a request to a stage of a case other
\* than the session's active one, leave the five keys in the clean state of
\* the requested case before the request is processed (so afterwards the
\* session holds nothing but what this one request added); a stage request
\* for the active case resets none of them.
C19_CaseSwitchAndResetClean ==
    [][/\ (reply'.called /\ reply'.view = "reset_case_view")
            => IsClean(session', reply'.case)
       /\ (/\ reply'.called
           /\ reply'.view = "stage_view"
           /\ reply'.stage \in DOMAIN STAGES
           /\ ActiveCase(session) # reply'.case)
            => /\ IsCleanButFor(session', reply'.case, reply'.stage)
               /\ (reply'.method = "GET" \/ Posted(reply'.message) = "")
                     => IsClean(session', reply'.case)
       /\ (/\ reply'.called
           /\ reply'.view = "stage_view"
           /\ ActiveCase(session) = reply'.case)
            => KeepsState(session, session')]_vars

\* C19 witness: a page of case-b was requested in a session of case-a that
\* held a chat and a completed stage; the session is clean, for case-b.
C19_Witness ==
    /\ reply.called
    /\ reply.view = "stage_view"
    /\ reply.method = "GET"
    /\ reply.case = "case-b"
    /\ ActiveCase(reply.arrived) = "case-a"
    /\ SessionChats(reply.arrived) # EmptyDict
    /\ CompletedStages(reply.arrived) # <<>>
    /\ IsClean(session, "case-b")

\* a reset was requested for the active case of a session that held a chat
\* and a completed stage; the session is clean
C19_WitnessReset ==
    /\ reply.called
    /\ reply.view = "reset_case_view"
    /\ reply.case = "case-a"
    /\ ActiveCase(reply.arrived) = "case-a"
    /\ CompletedStages(reply.arrived) # <<>>
    /\ IsClean(session, "case-a")

(***************************************************************************)
(* Properties of the summary visit (checked under Spec).                   *)
(***************************************************************************)
\* C14: whatever text the model returns, a visit to the summary with all core
\* stages completed ends with the rendered page: no request of the flow ends
\* with an unhandled fault.
C14_SummaryVisitNeverAborts ==
    response.status = 500 => FALSE

\* C24: the row a summary visit creates holds the session's chats of that
\* moment and one __summary__ entry (verdict, summary, score), and the
\* session's completed_stages; the session's chats and completed_stages are
\* the same after the save, and the chats of the session never hold a
\* __summary__ key (so none reaches a later summary prompt).
C24_RecordCopiesConversation ==
    [][/\ Len(histories') > Len(histories)
            => /\ DOMAIN histories'[Len(histories')].chats
                     = DOMAIN SessionChats(session) \cup {"__summary__"}
               /\ \A stage \in DOMAIN SessionChats(session) :
                     histories'[Len(histories')].chats[stage]
                        = SessionChats(session)[stage]
               /\ DOMAIN histories'[Len(histories')].chats["__summary__"]
                     = {"verdict", "summary", "score"}
               /\ histories'[Len(histories')].completed_stages
                     = CompletedStages(session)
               /\ SessionChats(session') = SessionChats(session)
               /\ CompletedStages(session') = CompletedStages(session)
       /\ "__summary__" \notin DOMAIN SessionChats(session')]_vars

\* C24 witness: a row is stored with the five chats the session holds and the
\* summary block of the assessment, and the session holds the five chats only.
C24_Witness ==
    /\ Len(histories) = 1
    /\ DOMAIN SessionChats(session) = CoreStages
    /\ DOMAIN histories[1].chats = CoreStages \cup {"__summary__"}
    /\ \A stage \in CoreStages : histories[1].chats[stage] = SessionChats(session)[stage]
    /\ histories[1].chats["__summary__"].verdict = JStr("OK")
    /\ histories[1].completed_stages = CompletedStages(session)
    /\ CaseSaved(session)

\* C25: no request of the flow or of the history pages changes or removes a
\* CaseHistory row: over every step the table after it starts with the table
\* before it, row by row (user, case, chats, completed_stages, is_completed).
C25_RecordsOnlyGrow ==
    [][/\ Len(histories) <= Len(histories')
       /\ \A pk \in DOMAIN histories : histories'[pk] = histories[pk]]_vars

\* a row is stored, the visitor has started over, stored a second row, left
\* for the other case and opened the first attempt's page
C25_Witness ==
    /\ Len(histories) = 2
    /\ ActiveCase(session) # histories[1].case
    /\ "template" \in DOMAIN response
    /\ response.template = "chat/completed_detail.html"
    /\ response.context.item = histories[1]

\* the core stages not in the session's completed_stages, in the fixed order
MissingStages(s) ==
    SelectSeq(STAGE_ORDER,
              LAMBDA stage : stage # "summary" /\ stage \notin Range(CompletedStages(s)))

\* the response is the summary page
SummaryServed(r) == "template" \in DOMAIN r /\ r.template = STAGES["summary"].template

\* C27: over every step of the flow, a request for the summary with a core
\* stage missing from completed_stages (as the view finds them, after a case
\* switch has cleared them) is answered by a redirect to the first missing
\* stage of the fixed order, makes no request to the service and stores no
\* row; with no stage missing it asks the service; the summary page is the
\* response only when no core stage is missing; and every row of the table
\* lists the five core stages as completed.
C27_SummaryOnlyWhenComplete ==
    [][/\ reply'.called /\ reply'.summary
            => /\ MissingStages(session') # <<>>
                    => /\ response' = redirect(<<"chat-stage", ActiveCase(session'),
                                                 MissingStages(session')[1]>>)
                       /\ reply'.calls = <<>>
                       /\ histories' = histories
               /\ MissingStages(session') = <<>>
                    => /\ response'.status # 302
                       /\ reply'.calls # <<>>
       /\ SummaryServed(response') => MissingStages(session') = <<>>
       /\ \A pk \in DOMAIN histories' :
            CoreStages \subseteq Range(histories'[pk].completed_stages)]_vars

\* the summary was asked for with diagnostics alone completed: the visitor is
\* sent to first_exam, the service is not asked, no row is stored
C27_WitnessRedirect ==
    /\ reply.called /\ reply.summary
    /\ CompletedStages(session) = <<"diagnostics">>
    /\ response = redirect(<<"chat-stage", "case-a", "first_exam">>)
    /\ reply.calls = <<>>
    /\ histories = <<>>
    /\ user # None

\* the summary was asked for with the five core stages completed: the
\* service was asked and the row stored lists the five
C27_Witness ==
    /\ reply.called /\ reply.summary
    /\ MissingStages(session) = <<>>
    /\ SummaryServed(response)
    /\ Len(reply.calls) = 1
    /\ Len(histories) = 1
    /\ Range(histories[1].completed_stages) = CoreStages

(***************************************************************************)
(* Properties of the helpers (checked under SpecHelpers).                  *)
(***************************************************************************)
\* the last call was of the helper `fn`
CalledHelper(fn) == reply.called /\ reply.fn = fn

\* the external call of the last assessment failed: no key, or a fault of
\* the request that had the last word
AssessmentCallFailed ==
    \/ ~reply.api_key
    \/ /\ reply.first.exc # None
       /\ reply.first.value # "Error code: 404 - Not Found"
    \/ /\ reply.first.exc # None
       /\ reply.second.exc # None

\* the text the service returned to the last assessment
AssessmentReply ==
    IF reply.first.exc = None THEN reply.first.value ELSE reply.second.value

\* the replies json.loads parses, bare or in a code fence
ParsedReplies ==
    {"{\"score\": 80, \"verdict\": \"OK\", \"summary\": \"Testowe podsumowanie\"}",
     "~~~json\n{\"score\": 80, \"verdict\": \"OK\", \"summary\": \"Testowe podsumowanie\"}\n~~~",
     "[\"OK\"]"}

\* C13: generate_summary_assessment never raises; a failed call gives an
\* error and an empty raw text, a reply that cannot be parsed gives an error
\* and the raw reply and no data, and data is there only for a reply that was
\* parsed.
C13_AssessmentNeverRaises ==
    CalledHelper("generate_summary_assessment") =>
        /\ reply.result.raised = None
        /\ AssessmentCallFailed =>
              /\ "error" \in DOMAIN reply.result.payload
              /\ reply.result.payload["raw"] = ""
        /\ (~AssessmentCallFailed /\ AssessmentReply \notin ParsedReplies) =>
              /\ "error" \in DOMAIN reply.result.payload
              /\ reply.result.payload["raw"] = AssessmentReply
              /\ "data" \notin DOMAIN reply.result.payload
        /\ "data" \in DOMAIN reply.result.payload =>
              (~AssessmentCallFailed /\ AssessmentReply \in ParsedReplies)

\* the Case field a stage is compared with
NORM_FIELDS ==
    "diagnostics" :> "diagnostics_norm" @@ "meds" :> "meds_norm" @@
    "reco" :> "reco_norm" @@ "dispo" :> "dispo_norm"

\* what {case_norm} stands for in the last rendering
ExpectedNorm ==
    IF instructions[reply.inst].stage \in DOMAIN NORM_FIELDS
    THEN TEXT[CASES[reply.case][NORM_FIELDS[instructions[reply.inst].stage]]]
    ELSE <<>>

\* what {user_answers} or {bot_answers} stands for: the answers, one per line
ExpectedHistory(x) ==
    CASE x.type = "list" /\ Len(x.value) = 0 -> <<>>
      [] x.type = "list" /\ Len(x.value) = 1 -> TEXT[x.value[1]]
      [] x.type = "list" /\ Len(x.value) = 2 ->
            TEXT[x.value[1]] \o <<"U+000A">> \o TEXT[x.value[2]]
      [] x.type = "str" -> TEXT[x.value]
      [] x.type = "NoneType" -> <<>>

\* the text expected of the last rendering, by its body
ExpectedRendering ==
    IF instructions[reply.inst].body = BODY_DIAGNOSE
    THEN TEXT["Diagnozuj: "] \o ExpectedNorm
    ELSE ExpectedNorm
            \o <<"U+000A">> \o TEXT[CASES[reply.case].prelim_dx_raw]
            \o <<"U+000A", "U", ":", " ">> \o ExpectedHistory(reply.user_answers)
            \o <<"U+000A", "B", ":", " ">> \o ExpectedHistory(reply.bot_answers)
            \o <<"U+000A", "M", "S", "G", ":", " ">> \o TEXT[reply.actual_msg]

\* C15: for a body that names only the five fields, render_instruction_body
\* returns the body with {case_norm} replaced by the case's field of the
\* instruction's stage (nothing for first_exam), {prelim_dx} by the raw
\* preliminary diagnosis, {user_answers} and {bot_answers} by the answers one
\* per line (nothing for None or an empty input) and {actual_msg} by the
\* message, each value as it is, whatever the other values hold.
C15_RendersEveryField ==
    (/\ CalledHelper("render_instruction_body")
     /\ instructions[reply.inst].body \in {BODY_ALL_FIELDS, BODY_DIAGNOSE})
    => /\ reply.result.exc = None
       /\ reply.result.value = ExpectedRendering

\* C15 witness: a first_exam instruction with every field is rendered for a
\* case with all fields set, without user answers, with two bot answers and
\* with a message that reads like a replacement field.
C15_Witness ==
    /\ CalledHelper("render_instruction_body")
    /\ instructions[reply.inst].body = BODY_ALL_FIELDS
    /\ instructions[reply.inst].stage = "first_exam"
    /\ reply.case = "case-a"
    /\ reply.user_answers.type = "NoneType"
    /\ reply.bot_answers.type = "list" /\ Len(reply.bot_answers.value) = 2
    /\ reply.actual_msg = "{prelim_dx}"
    /\ reply.result.exc = None
    /\ reply.result.value =
          <<"U+000A", "S", "T", "E", "M", "I", "U+000A", "U", ":", " ", "U+000A",
            "B", ":", " ">> \o TEXT["pacjent ma objawy"] \o <<"U+000A">>
            \o TEXT["kolejne pytanie"] \o <<"U+000A", "M", "S", "G", ":", " ">>
            \o TEXT["{prelim_dx}"]

\* one character in lower case and without its accent mark
Folded(ch) ==
    LET low == IF ch \in DOMAIN LOWER THEN LOWER[ch] ELSE ch
    IN  IF low \in DOMAIN NFD THEN NFD[low][1] ELSE low

\* a text in lower case and without accent marks
FoldedText(text) == [i \in 1..Len(TEXT[text]) |-> Folded(TEXT[text][i])]

\* `part` occurs in `whole`
OccursIn(part, whole) ==
    \E at \in 0..(Len(whole) - Len(part)) : \A i \in 1..Len(part) : whole[at + i] = part[i]

\* C16: _check_can_proceed(text, targets) is true exactly when text is not
\* empty and some target, in lower case and without accent marks, occurs in
\* the text taken the same way; an empty text and an empty target list give
\* false.
C16_PassIffTargetOccurs ==
    CalledHelper("_check_can_proceed") =>
        /\ reply.result <=>
              /\ reply.bot_text # ""
              /\ \E i \in 1..Len(reply.targets) :
                    OccursIn(FoldedText(reply.targets[i]), FoldedText(reply.bot_text))
        /\ reply.bot_text = "" => ~reply.result
        /\ reply.targets = <<>> => ~reply.result

\* C16 witness: a reply with the phrase in capitals and with an accent passes
\* the target "zaliczam".
C16_Witness ==
    /\ CalledHelper("_check_can_proceed")
    /\ reply.bot_text = "ZALICZAM"
    /\ TEXT[reply.bot_text] = <<"Z", "A", "L", "I", "C", "Z", "U+0104", "M">>
    /\ reply.targets = <<"zaliczam">>
    /\ reply.result

\* C20: when chats holds no message for any stage (no key, or only empty
\* lists), the transcript generate_summary_assessment puts into the prompt
\* and sends as input is the placeholder "Brak historii rozmowy.".
C20_EmptyChatsGivePlaceholder ==
    (/\ CalledHelper("generate_summary_assessment")
     /\ \A stage \in DOMAIN reply.chats : reply.chats[stage] = <<>>)
    => /\ reply.result.transcript = TEXT["Brak historii rozmowy."]
       /\ \A i \in 1..Len(reply.result.calls) :
             reply.result.calls[i].input = TEXT["Brak historii rozmowy."]

\* C21: whatever the case and the chats, the canonical answers of the summary
\* prompt have exactly the keys diagnostics, first_exam, meds, reco and dispo;
\* diagnostics, meds, reco and dispo carry the case's normalized field of
\* that name, first_exam the raw preliminary diagnosis, a blank field "".
C21_CanonicalAnswersPerStage ==
    CalledHelper("generate_summary_assessment") =>
        /\ DOMAIN reply.result.canonical_answers
              = {"diagnostics", "first_exam", "meds", "reco", "dispo"}
        /\ reply.result.canonical_answers["diagnostics"] = CASES[reply.case].diagnostics_norm
        /\ reply.result.canonical_answers["first_exam"] = CASES[reply.case].prelim_dx_raw
        /\ reply.result.canonical_answers["meds"] = CASES[reply.case].meds_norm
        /\ reply.result.canonical_answers["reco"] = CASES[reply.case].reco_norm
        /\ reply.result.canonical_answers["dispo"] = CASES[reply.case].dispo_norm
        /\ \A stage \in DOMAIN reply.result.canonical_answers :
              reply.result.canonical_answers[stage] \in DOMAIN TEXT

\* C21 witness: the assessment of a conversation of two stages for the case
\* with every field set carries the diagnosis under first_exam; and the case
\* with blank fields gives "" (C21_WitnessBlank).
C21_Witness ==
    /\ CalledHelper("generate_summary_assessment")
    /\ reply.case = "case-a"
    /\ DOMAIN reply.chats = {"diagnostics", "meds"}
    /\ reply.result.canonical_answers["first_exam"] = "STEMI"
    /\ reply.result.canonical_answers["meds"] = "Podaj ASA"

C21_WitnessBlank ==
    /\ CalledHelper("generate_summary_assessment")
    /\ reply.case = "case-b"
    /\ \A stage \in DOMAIN reply.result.canonical_answers :
          reply.result.canonical_answers[stage] = ""

\* the stages that are not the summary, in the fixed order
NonTerminalStages == <<"diagnostics", "first_exam", "meds", "reco", "dispo">>

\* `text` is the text of the latest turn of `role` in the conversation, or ""
\* if the role has no turn
IsLatestOf(text, role, conversation) ==
    \/ /\ \A i \in 1..Len(conversation) : conversation[i].role # role
       /\ text = ""
    \/ \E i \in 1..Len(conversation) :
          /\ conversation[i].role = role
          /\ conversation[i].text = text
          /\ \A j \in (i + 1)..Len(conversation) : conversation[j].role # role

\* C22: _build_stage_payload returns one record per non-terminal stage, in the
\* fixed order; the conversation of a record is the stage's message list (empty
\* for a stage that chats does not hold), its last user answer and its last
\* assistant answer are the texts of the latest turns of the role (empty if
\* there is none); the summary stage and a __summary__ entry give no record.
C22_OneRecordPerStage ==
    CalledHelper("_build_stage_payload") =>
        /\ Len(reply.result) = 5
        /\ \A i \in 1..Len(reply.result) :
              /\ reply.result[i].stage = NonTerminalStages[i]
              /\ reply.result[i].conversation
                    = (IF NonTerminalStages[i] \in DOMAIN reply.chats
                       THEN reply.chats[NonTerminalStages[i]] ELSE <<>>)
              /\ IsLatestOf(reply.result[i].user_last_answer, "user",
                            reply.result[i].conversation)
              /\ IsLatestOf(reply.result[i].assistant_last_answer, "assistant",
                            reply.result[i].conversation)
              /\ reply.result[i].stage \notin {"summary", "__summary__"}

\* C22 witness: chats with two exchanges in diagnostics and a lone user turn
\* in reco give five records, the second user text and the second reply as
\* the last answers of diagnostics; and chats with a "summary" and a
\* "__summary__" entry give the five records too (C22_WitnessSummaryEntry).
C22_Witness ==
    /\ CalledHelper("_build_stage_payload")
    /\ DOMAIN reply.chats = {"diagnostics", "reco"}
    /\ Len(reply.result) = 5
    /\ Len(reply.result[1].conversation) = 4
    /\ reply.result[1].user_last_answer = "kolejne pytanie"
    /\ reply.result[1].assistant_last_answer = "Pacjent - ZALICZAM etap."
    /\ reply.result[4].user_last_answer = "kolejne pytanie"
    /\ reply.result[4].assistant_last_answer = ""
    /\ reply.result[3].conversation = <<>>

C22_WitnessSummaryEntry ==
    /\ CalledHelper("_build_stage_payload")
    /\ "__summary__" \in DOMAIN reply.chats
    /\ "summary" \in DOMAIN reply.chats
    /\ Len(reply.result) = 5
    /\ Len(reply.result[2].conversation) = 2

\* the call returned the value
ParsedAs(out, value) ==
    out.exc = None /\ out.value.type = value.type /\ out.value = value

\* C26: for every object, _extract_json_payload gives the value of the bare
\* object text for that text in every wrapping (whitespace, a code fence
\* without or with a language tag and a closing fence, whitespace around the
\* fences and the object), and an empty reply gives None.
C26_FencedParsesAsBare ==
    CalledHelper("_extract_json_payload") =>
        /\ \A w \in DOMAIN ReplyWrappings, object \in ReplyObjects :
              reply.raw_text = Wrapped(ReplyWrappings[w], object)
                  => /\ ParsedAs(extract_json_payload(object), JSON_DOCUMENTS[object])
                     /\ ParsedAs(reply.result, JSON_DOCUMENTS[object])
        /\ reply.raw_text = <<>> => reply.result = Return(JNone)

\* the wrappings whose opening fence line is the fence, ASCII letters or none,
\* and a line feed
LetterTagWrappings ==
    {w \in DOMAIN ReplyWrappings :
        \A i \in DOMAIN CharsOf(ReplyWrappings[w].before) :
            CharsOf(ReplyWrappings[w].before)[i]
                \in ASCII_LETTERS \cup {"U+0060", "U+000A", " "}}

\* the same for the wrappings of LetterTagWrappings only
C26_LetterTagFenceParsesAsBare ==
    CalledHelper("_extract_json_payload") =>
        /\ \A w \in LetterTagWrappings, object \in ReplyObjects :
              reply.raw_text = Wrapped(ReplyWrappings[w], object)
                  => /\ ParsedAs(extract_json_payload(object), JSON_DOCUMENTS[object])
                     /\ ParsedAs(reply.result, JSON_DOCUMENTS[object])
        /\ reply.raw_text = <<>> => reply.result = Return(JNone)

\* an object with a fence inside a string came in a fence with a language tag
\* and whitespace around the fences and the object, and was parsed
C26_WitnessLetterTag ==
    /\ CalledHelper("_extract_json_payload")
    /\ reply.raw_text = Wrapped(ReplyWrappings[5], "{\"verdict\": \"~~~json\"}")
    /\ ParsedAs(reply.result, JDict("verdict" :> JStr("~~~json")))

(***************************************************************************)
(* Properties of the Case table (checked under SpecCases).                 *)
(***************************************************************************)
\* the slug of each name, as slugify gives it, cut to the length of the field
SLUG_OF_NAME ==
    "" :> "" @@ "Test case" :> "test-case" @@ "Test Case" :> "test-case" @@
    "Bol glowy!" :> "bol-gowy" @@ "a * 121" :> "a * 120"

\* C23: the slug stored by the first save of a Case is derived from its name,
\* every later save leaves the stored slug as it is (also after the name or
\* the slug attribute was changed), and no two stored cases have the same
\* slug.
C23_SlugDerivedOnceAndUnique ==
    [][/\ Len(cases') > Len(cases)
            => cases'[Len(cases')].slug = SLUG_OF_NAME[cases'[Len(cases')].name]
       /\ \A pk \in 1..Len(cases) : cases'[pk].slug = cases[pk].slug
       /\ \A a, b \in 1..Len(cases') : cases'[a].slug = cases'[b].slug => a = b]_vars

\* the parts of C23 the code keeps: a Case saved first without a slug gets
\* the slug of its name, a save of an instance whose slug attribute is the
\* stored, non-empty slug keeps the stored slug whatever its name, and slugs
\* are unique
C23_SlugKeptWithoutSlugEdit ==
    [][/\ (Len(cases') > Len(cases) /\ instance.slug = "")
            => cases'[Len(cases')].slug = SLUG_OF_NAME[cases'[Len(cases')].name]
       /\ \A pk \in 1..Len(cases) :
             (instance.pk = pk => (instance.slug = cases[pk].slug /\ instance.slug # ""))
                => cases'[pk].slug = cases[pk].slug
       /\ \A a, b \in 1..Len(cases') : cases'[a].slug = cases'[b].slug => a = b]_vars

(***************************************************************************)
(* Properties of the session over the flow (checked under Spec).           *)
(***************************************************************************)
\* per core stage, the texts that hold a pass phrase of the stage, in any
\* case and accents apart
PASSING_TEXTS ==
    [stage \in CoreStages |->
        {text \in DOMAIN TEXT :
            \E i \in 1..Len(STAGES[stage].targets_done) :
                OccursIn(FoldedText(STAGES[stage].targets_done[i]), FoldedText(text))}]

\* the text holds the pass phrase of the stage
MatchesPassPhrase(stage, text) == stage \in CoreStages /\ text \in PASSING_TEXTS[stage]

\* the chat of the stage ends with an assistant reply that passes
EndsWithPassingReply(s, stage) ==
    /\ stage \in DOMAIN SessionChats(s)
    /\ SessionChats(s)[stage] # <<>>
    /\ LET last == SessionChats(s)[stage][Len(SessionChats(s)[stage])]
       IN  last.role = "assistant" /\ MatchesPassPhrase(stage, last.text)

\* the step is a reset or makes another case the active one
ResetOrSwitch ==
    reply'.view = "reset_case_view" \/ ActiveCase(session') # ActiveCase(session)

\* C28: after every step of the flow each stage in completed_stages has a
\* chat that is not empty and ends with an assistant reply holding the pass
\* phrase, and over every step that is no reset and no case switch the chat
\* of a completed stage stays as it is.
C28_CompletedChatEndsWithPass ==
    [][/\ \A stage \in Range(CompletedStages(session')) :
            EndsWithPassingReply(session', stage)
       /\ ~ResetOrSwitch
            => \A stage \in Range(CompletedStages(session)) :
                 /\ stage \in DOMAIN SessionChats(session')
                 /\ SessionChats(session')[stage] = SessionChats(session)[stage]]_vars

\* diagnostics was completed at the second attempt and a message was then
\* posted to it: the chat still ends with the passing reply
C28_Witness ==
    /\ reply.called /\ reply.view = "stage_view" /\ ~reply.summary
    /\ CompletedStages(session) = <<"diagnostics">>
    /\ Len(SessionChats(session)["diagnostics"]) = 4
    /\ EndsWithPassingReply(session, "diagnostics")
    /\ response = JsonResponse([ok |-> FALSE, error |-> "stage_completed"])

\* C29: after every step of the flow completed_stages holds no stage twice
\* and core stages only, and over every step that is no reset and no case
\* switch the list before the step is the beginning of the list after it.
C29_CompletedStagesOnlyGrow ==
    [][/\ \A i, j \in DOMAIN CompletedStages(session') :
            CompletedStages(session')[i] = CompletedStages(session')[j] => i = j
       /\ Range(CompletedStages(session')) \subseteq CoreStages
       /\ ~ResetOrSwitch
            => IsPrefix(CompletedStages(session), CompletedStages(session'))]_vars

\* the five core stages are completed, in their order, and a message posted
\* to the last one was turned away
C29_Witness ==
    /\ reply.called /\ reply.view = "stage_view" /\ ~reply.summary
    /\ CompletedStages(session) = SelectSeq(STAGE_ORDER, LAMBDA s : s # "summary")
    /\ response = JsonResponse([ok |-> FALSE, error |-> "stage_completed"])

====
